---------------------------- MODULE Spec2Model ----------------------------
(***************************************************************************)
(* GitGuard: a model of the .gitignore handler (GitIgnoreHandler), of the  *)
(* file watcher with its debounced notifications (FileWatcher) and of the  *)
(* parts of the extension and of the notification manager they call.       *)
(*                                                                         *)
(* Text is modelled as a sequence of one-character strings, so that the    *)
(* string operations of the code (trim, split, endsWith, replace) are      *)
(* computed and not assumed.                                               *)
(***************************************************************************)
EXTENDS Naturals, Integers, Sequences, FiniteSets, TLC

VARIABLES
    file,       \* the .gitignore of the workspace root: [exists, content]
    calls,      \* the in-flight GitIgnoreHandler calls, one record per slot
    started,    \* number of handler calls started so far (bounded)
    history,    \* the calls that have finished, in the order they finished
    config,     \* the gitGuard settings: enabled, watchFileCreation,
                \* suppressedWarnings
    initialized,            \* GitGuardExtension: initialize has set the rules
    applicableRules,        \* GitGuardExtension.applicableRules
    watcher,                \* FileWatcher.watcher is set (onDidCreate is heard)
    activeRules,            \* FileWatcher.activeRules
    pendingNotifications,   \* FileWatcher.pendingNotifications, in Map order
    debounceTimer,          \* FileWatcher.debounceTimer: a timer id, 0 for null
    timers,                 \* the timers of the host that are armed: [id, due]
    now,                    \* the clock of the host, in ms
    permanentlyDismissed,   \* FileWatcher.permanentlyDismissed
    sessionSuppressed,      \* NotificationManager.sessionSuppressed
    handlers,   \* the handleFileCreated invocations suspended at isIgnored
    prompts,    \* the flushes that wait for the user or for config.update
    nextId,     \* the number the next creation event gets
    flushed,    \* history: the numbers of the events the flushes have taken
    userDismissed,  \* history: the patterns the user chose "Don't Warn Again" for
    probe,          \* the last call of a function without side effects:
                    \* its name, its arguments and what it returned
    workspace,      \* per workspace folder and detector: what detect finds
    cachedResults,  \* DetectionEngine.cachedResults
    detectCall,     \* the detectAll call in flight
    detectDone,     \* history: the detectAll calls that have returned
    settings,       \* the gitGuard settings the commands of the extension read
    indexChanges,   \* the staged files of the repository, as relative paths
    flow            \* the command of the extension in flight: its place, the
                    \* answers the user gave to its prompts, what it returned

gitVars == <<file, calls, started, history>>

watchVars ==
    <<config, initialized, applicableRules, watcher, activeRules,
      pendingNotifications, debounceTimer, timers, now, permanentlyDismissed,
      sessionSuppressed, handlers, prompts, nextId, flushed,
      userDismissed>>

extVars == <<settings, indexChanges, flow>>

coreVars ==
    <<probe, workspace, cachedResults, detectCall, detectDone, extVars>>

vars == <<gitVars, watchVars, coreVars>>

-----------------------------------------------------------------------------
(* Bounds *)

\* number of GitIgnoreHandler calls that may be in flight at the same time
MaxCalls == 2

\* number of GitIgnoreHandler calls started in one behaviour
MaxOps == 2

\* number of file creation events in one behaviour
MaxEvents == 3

\* how far the clock runs, in ticks
MaxTicks == 4

\* the longest list of detections getRulesForDetections is given
MaxDetections == 3

\* number of DetectionEngine calls that may be in flight at the same time
MaxDetectCalls == 2

\* number of DetectionEngine operations started in one behaviour
MaxDetectOps == 3

\* the longest list of manifests a detector finds in one root
MaxManifests == 2

-----------------------------------------------------------------------------
(* Text *)

NL == "\n"

IsWhitespace(c) == c \in {" ", NL, "\t", "\r"}

RECURSIVE TrimStart(_)
TrimStart(s) ==
    IF s # <<>> /\ IsWhitespace(Head(s)) THEN TrimStart(Tail(s)) ELSE s

RECURSIVE TrimEnd(_)
TrimEnd(s) ==
    IF s # <<>> /\ IsWhitespace(s[Len(s)])
    THEN TrimEnd(SubSeq(s, 1, Len(s) - 1))
    ELSE s

\* String.prototype.trim
Trim(s) == TrimEnd(TrimStart(s))

StartsWith(s, p) == Len(s) >= Len(p) /\ SubSeq(s, 1, Len(p)) = p

EndsWith(s, p) ==
    Len(s) >= Len(p) /\ SubSeq(s, Len(s) - Len(p) + 1, Len(s)) = p

\* String.prototype.includes
Includes(s, p) ==
    \E i \in 0..(Len(s) - Len(p)) : SubSeq(s, i + 1, i + Len(p)) = p

\* String.prototype.split('\n')
RECURSIVE Split(_)
Split(s) ==
    IF \A i \in 1..Len(s) : s[i] # NL
    THEN <<s>>
    ELSE LET i == CHOOSE k \in 1..Len(s) :
                    s[k] = NL /\ \A j \in 1..(k - 1) : s[j] # NL
         IN  <<SubSeq(s, 1, i - 1)>> \o Split(SubSeq(s, i + 1, Len(s)))

\* Array.prototype.join('\n')
RECURSIVE Join(_)
Join(lines) ==
    IF lines = <<>> THEN <<>>
    ELSE IF Len(lines) = 1 THEN lines[1]
    ELSE lines[1] \o <<NL>> \o Join(Tail(lines))

\* Array.prototype.join(', ')
RECURSIVE JoinComma(_)
JoinComma(names) ==
    IF names = <<>> THEN <<>>
    ELSE IF Len(names) = 1 THEN names[1]
    ELSE names[1] \o <<",", " ">> \o JoinComma(Tail(names))

Range(seq) == {seq[i] : i \in 1..Len(seq)}

\* The literal texts of the source, character by character.
HeaderText == <<"#", " ", "A", "d", "d", "e", "d", " ", "b", "y", " ",
                "G", "i", "t", "G", "u", "a", "r", "d">>

CreateHeaderText ==
    <<"#", " ", "G", "i", "t", "G", "u", "a", "r", "d", " ", "-", " ",
      "A", "u", "t", "o", "-", "g", "e", "n", "e", "r", "a", "t", "e", "d",
      " ", ".", "g", "i", "t", "i", "g", "n", "o", "r", "e">>

DetectedText ==
    <<"#", " ", "D", "e", "t", "e", "c", "t", "e", "d", " ",
      "f", "r", "a", "m", "e", "w", "o", "r", "k", "s", ":", " ">>

GeneratedText ==
    <<"#", " ", "G", "e", "n", "e", "r", "a", "t", "e", "d", " ",
      "o", "n", ":", " ">>

CriticalSection ==
    <<"#", " ", "=", "=", "=", " ", "C", "r", "i", "t", "i", "c", "a", "l",
      " ", "(", "S", "e", "c", "u", "r", "i", "t", "y", ")", " ",
      "=", "=", "=">>

RecommendedSection ==
    <<"#", " ", "=", "=", "=", " ", "R", "e", "c", "o", "m", "m", "e", "n",
      "d", "e", "d", " ", "=", "=", "=">>

OptionalSection ==
    <<"#", " ", "=", "=", "=", " ", "O", "p", "t", "i", "o", "n", "a", "l",
      " ", "=", "=", "=">>

\* new Date().toISOString(): the clock is outside the model, one instant stands
\* for it
IsoDate == <<"2", "0", "2", "6">>

\* the reason addPattern gives a rule when the caller gives none
AddedByUser == <<"A", "d", "d", "e", "d", " ", "b", "y", " ", "u", "s", "e", "r">>

-----------------------------------------------------------------------------
(* Rules, and the inputs of the model *)

Severities == {"critical", "recommended", "optional"}

Rule(p, s, r) == [pattern |-> p, severity |-> s, reason |-> r]

P_env == <<".", "e", "n", "v">>
P_nodeModules == <<"n", "o", "d", "e", "_", "m", "o", "d", "u", "l", "e", "s">>
P_nodeModulesDir == P_nodeModules \o <<"/">>
P_hash == <<"#", "t", "m", "p">>
P_slash == <<"/">>
P_log == <<"*", ".", "l", "o", "g">>

T_secrets == <<"s", "e", "c", "r", "e", "t", "s">>
T_deps == <<"d", "e", "p", "s">>
T_logs == <<"l", "o", "g", "s">>
T_node == <<"N", "o", "d", "e">>
T_react == <<"R", "e", "a", "c", "t">>

R_env == Rule(P_env, "critical", T_secrets)
R_nodeModulesDir == Rule(P_nodeModulesDir, "recommended", T_deps)
R_hash == Rule(P_hash, "optional", T_logs)
R_slash == Rule(P_slash, "optional", T_logs)
R_log == Rule(P_log, "optional", T_logs)

\* the rule lists the callers pass
RuleLists ==
    {<<>>, <<R_env>>, <<R_nodeModulesDir, R_env>>, <<R_hash>>, <<R_slash>>,
     <<R_log, R_log>>}

\* the frameworkName argument of addPatterns: <<>> stands for undefined and ''
Labels == {<<>>, T_node}

\* the names of the detections create is given
DetectionNames == {<<>>, <<T_node, T_react>>}

NoFile == [exists |-> FALSE, content |-> <<>>]

FileOf(text) == [exists |-> TRUE, content |-> text]

\* the contents .gitignore starts with
InitialFiles ==
    {NoFile,
     FileOf(<<>>),
     FileOf(P_nodeModules),
     FileOf(<<"#", "x", NL>> \o P_env \o <<NL>>),
     FileOf(<<" ", NL>>)}

-----------------------------------------------------------------------------
(* GitIgnoreHandler: the pure parts *)

RECURSIVE StripTrailingSlashes(_)
StripTrailingSlashes(s) ==
    IF s # <<>> /\ s[Len(s)] = "/"
    THEN StripTrailingSlashes(SubSeq(s, 1, Len(s) - 1))
    ELSE s

\* a normalizePattern that forgets the trailing slashes
normalizePattern_KeepSlash(pattern) == Trim(pattern)

\* pattern.trim().replace(/\/+$/, '')
normalizePattern(pattern) == StripTrailingSlashes(Trim(pattern))

\* what read() resolves to: the content, or null (ok = FALSE)
ReadNull == [ok |-> FALSE, content |-> <<>>]

\* getExistingPatterns, from what its read() returned
getExistingPatterns(r) ==
    IF ~r.ok \/ r.content = <<>> THEN {}
    ELSE LET lines == Split(r.content)
             kept == {i \in 1..Len(lines) :
                         /\ Trim(lines[i]) # <<>>
                         /\ ~StartsWith(Trim(lines[i]), <<"#">>)}
         IN  {normalizePattern(Trim(lines[i])) : i \in kept}

\* rules.filter(rule => !existing.has(normalizePattern(rule.pattern)))
RECURSIVE MissingRules(_, _)
MissingRules(rules, existing) ==
    IF rules = <<>> THEN <<>>
    ELSE (IF normalizePattern(Head(rules).pattern) \in existing
          THEN <<>> ELSE <<Head(rules)>>)
         \o MissingRules(Tail(rules), existing)

\* the patterns of the rules addPatterns finds in the file already
RECURSIVE AlreadyExists(_, _)
AlreadyExists(rules, existing) ==
    IF rules = <<>> THEN <<>>
    ELSE (IF normalizePattern(Head(rules).pattern) \in existing
          THEN <<Head(rules).pattern>> ELSE <<>>)
         \o AlreadyExists(Tail(rules), existing)

Patterns(rules) == [i \in 1..Len(rules) |-> rules[i].pattern]

RECURSIVE BySeverity(_, _)
BySeverity(rules, sev) ==
    IF rules = <<>> THEN <<>>
    ELSE (IF Head(rules).severity = sev THEN <<Head(rules)>> ELSE <<>>)
         \o BySeverity(Tail(rules), sev)

\* the lines addPatterns writes for the rules: the reason of a critical rule as
\* a comment, then the pattern
RECURSIVE AppendedRuleLines(_)
AppendedRuleLines(rules) ==
    IF rules = <<>> THEN <<>>
    ELSE (IF Head(rules).severity = "critical"
          THEN <<<<"#", " ">> \o Head(rules).reason>> ELSE <<>>)
         \o <<Head(rules).pattern>>
         \o AppendedRuleLines(Tail(rules))

HeaderLine(label) ==
    IF label # <<>> THEN HeaderText \o <<" ", "(">> \o label \o <<")">>
    ELSE HeaderText

\* the content addPatterns writes, from what its second read() returned
AppendedContent(r, toAdd, label) ==
    LET read == IF r.ok THEN r.content ELSE <<>>
        currentContent ==
            IF read # <<>> /\ ~EndsWith(read, <<NL>>) THEN read \o <<NL>>
            ELSE read
        newLines ==
            (IF Trim(currentContent) # <<>> THEN <<<<>>>> ELSE <<>>)
            \o <<HeaderLine(label)>>
            \o AppendedRuleLines(toAdd)
    IN  currentContent \o Join(newLines) \o <<NL>>

RECURSIVE PatternLines(_)
PatternLines(rules) ==
    IF rules = <<>> THEN <<>>
    ELSE <<Head(rules).pattern>> \o PatternLines(Tail(rules))

\* the content create writes
CreatedContent(rules, names) ==
    LET critical == BySeverity(rules, "critical")
        recommended == BySeverity(rules, "recommended")
        optional == BySeverity(rules, "optional")
        lines ==
            <<CreateHeaderText,
              DetectedText \o JoinComma(names),
              GeneratedText \o IsoDate,
              <<>>>>
            \o (IF critical # <<>>
                THEN <<CriticalSection>> \o AppendedRuleLines(critical)
                     \o <<<<>>>>
                ELSE <<>>)
            \o (IF recommended # <<>>
                THEN <<RecommendedSection>> \o PatternLines(recommended)
                     \o <<<<>>>>
                ELSE <<>>)
            \o (IF optional # <<>>
                THEN <<OptionalSection>> \o PatternLines(optional)
                     \o <<<<>>>>
                ELSE <<>>)
    IN  Join(lines)

\* the GitIgnoreModificationResult records
GitignorePath == ".gitignore"

NoError == "(none)"

ResultOk(added, existing) ==
    [success |-> TRUE, filePath |-> GitignorePath, addedPatterns |-> added,
     existingPatterns |-> existing, error |-> NoError]

ResultFailed(existing, message) ==
    [success |-> FALSE, filePath |-> GitignorePath, addedPatterns |-> <<>>,
     existingPatterns |-> existing, error |-> message]

\* what writeFile may throw: an Error with its message, or a value that is no
\* Error
ThrownValues ==
    {[isError |-> TRUE, message |-> "EACCES: permission denied"],
     [isError |-> FALSE, message |-> ""]}

\* error instanceof Error ? error.message : 'Unknown error'
errorMessage(thrown) ==
    IF thrown.isError THEN thrown.message ELSE "Unknown error"

-----------------------------------------------------------------------------
(* Regular expressions, as far as the matchers build them: escaped and     *)
(* plain characters, '.', character classes and the '*' quantifier.        *)

\* String.prototype.replace with a global pattern for one literal text
RECURSIVE ReplaceAll(_, _, _)
ReplaceAll(s, from, to) ==
    IF Len(s) < Len(from) THEN s
    ELSE IF SubSeq(s, 1, Len(from)) = from
    THEN to \o ReplaceAll(SubSeq(s, Len(from) + 1, Len(s)), from, to)
    ELSE <<Head(s)>> \o ReplaceAll(Tail(s), from, to)

\* pattern.replace(/\/$/, ''): one trailing slash goes
StripOneSlash(pattern) ==
    IF pattern # <<>> /\ pattern[Len(pattern)] = "/"
    THEN SubSeq(pattern, 1, Len(pattern) - 1)
    ELSE pattern

\* the index of the first ']' of a class that opens at position 1
ClassEnd(src) ==
    IF \E k \in 2..Len(src) : src[k] = "]"
    THEN CHOOSE k \in 2..Len(src) :
             src[k] = "]" /\ \A j \in 2..(k - 1) : src[j] # "]"
    ELSE Len(src)

\* the first atom of a regular expression source and the number of
\* characters it takes
FirstAtom(src) ==
    IF Head(src) = "\\" /\ Len(src) >= 2
    THEN [any |-> FALSE, neg |-> FALSE, chars |-> {src[2]}, len |-> 2]
    ELSE IF Head(src) = "."
    THEN [any |-> TRUE, neg |-> FALSE, chars |-> {}, len |-> 1]
    ELSE IF Head(src) = "["
    THEN LET e == ClassEnd(src)
             neg == Len(src) >= 2 /\ src[2] = "^"
             from == IF neg THEN 3 ELSE 2
         IN  [any |-> FALSE, neg |-> neg,
              chars |-> {src[k] : k \in from..(e - 1)}, len |-> e]
    ELSE [any |-> FALSE, neg |-> FALSE, chars |-> {Head(src)}, len |-> 1]

\* the source as a sequence of atoms, each with its quantifier
RECURSIVE ParseRegex(_)
ParseRegex(src) ==
    IF src = <<>> THEN <<>>
    ELSE LET a == FirstAtom(src)
             star == Len(src) > a.len /\ src[a.len + 1] = "*"
             used == IF star THEN a.len + 1 ELSE a.len
         IN  <<[any |-> a.any, neg |-> a.neg, chars |-> a.chars,
                star |-> star]>>
             \o ParseRegex(SubSeq(src, used + 1, Len(src)))

AtomMatches(a, c) ==
    IF a.any THEN c \notin {NL, "\r"} ELSE (c \in a.chars) # a.neg

\* the atoms match the whole of s
RECURSIVE MatchAll(_, _)
MatchAll(atoms, s) ==
    IF atoms = <<>> THEN s = <<>>
    ELSE IF Head(atoms).star
    THEN \/ MatchAll(Tail(atoms), s)
         \/ /\ s # <<>>
            /\ AtomMatches(Head(atoms), Head(s))
            /\ MatchAll(atoms, Tail(s))
    ELSE /\ s # <<>>
         /\ AtomMatches(Head(atoms), Head(s))
         /\ MatchAll(Tail(atoms), Tail(s))

\* new RegExp(`^${src}$`).test(s)
TestWhole(src, s) == MatchAll(ParseRegex(src), s)

\* new RegExp(`(^|/)${src}$`).test(s): the match starts at the start of s or
\* right after a '/', and ends at the end of s
TestSegmentTail(src, s) ==
    \E i \in 0..Len(s) :
        /\ i = 0 \/ s[i] = "/"
        /\ MatchAll(ParseRegex(src), SubSeq(s, i + 1, Len(s)))

\* path.basename of a path with '/' separators
Basename(path) ==
    IF \E k \in 1..Len(path) : path[k] = "/"
    THEN LET k == CHOOSE i \in 1..Len(path) :
                      path[i] = "/" /\ \A j \in (i + 1)..Len(path) : path[j] # "/"
         IN  SubSeq(path, k + 1, Len(path))
    ELSE path

\* GitIgnoreHandler.matchesPattern
gitMatchesPattern(fullPath, fileName, pattern) ==
    LET normalizedPattern == StripOneSlash(pattern)
    IN  \/ fileName = normalizedPattern
        \/ Includes(fullPath, normalizedPattern)
        \/ /\ Includes(pattern, <<"*">>)
           /\ LET regexPattern ==
                      ReplaceAll(ReplaceAll(pattern, <<".">>, <<"\\", ".">>),
                                 <<"*">>, <<".", "*">>)
              IN  TestWhole(regexPattern, fileName)
                  \/ TestWhole(regexPattern, fullPath)

\* isIgnored, from what the read of getExistingPatterns returned
isIgnored(r, relativePath) ==
    \E pattern \in getExistingPatterns(r) :
        gitMatchesPattern(relativePath, Basename(relativePath), pattern)

\* FileWatcher.matchesPattern with the directory rules taken as plain
\* containment
watcherMatchesPattern_Substring(fullPath, fileName, pattern) ==
    LET normalizedPattern == StripOneSlash(pattern)
    IN  \/ fileName = normalizedPattern
        \/ /\ normalizedPattern = P_env
           /\ fileName = P_env \/ StartsWith(fileName, P_env \o <<".">>)
        \/ Includes(fullPath, normalizedPattern)

\* FileWatcher.matchesPattern
watcherMatchesPattern(fullPath, fileName, pattern) ==
    LET normalizedPattern == StripOneSlash(pattern)
    IN  \/ fileName = normalizedPattern
        \/ /\ normalizedPattern = P_env
           /\ fileName = P_env \/ StartsWith(fileName, P_env \o <<".">>)
        \/ Includes(fullPath, <<"/">> \o normalizedPattern \o <<"/">>)
        \/ StartsWith(fullPath, normalizedPattern \o <<"/">>)
        \/ /\ Includes(pattern, <<"*">>)
           /\ LET regexPattern ==
                      ReplaceAll(
                          ReplaceAll(
                              ReplaceAll(pattern, <<".">>, <<"\\", ".">>),
                              <<"*", "*">>, <<".", "*">>),
                          <<"*">>, <<"[", "^", "/", "]", "*">>)
              IN  TestSegmentTail(regexPattern, fullPath)
                  \/ TestSegmentTail(regexPattern, fileName)

\* FileWatcher.matchAgainstRules: the first rule that matches, as a sequence
\* of at most one rule (empty for null)
RECURSIVE matchAgainstRules(_, _, _)
matchAgainstRules(rules, relativePath, fileName) ==
    IF rules = <<>> THEN <<>>
    ELSE IF watcherMatchesPattern(relativePath, fileName, Head(rules).pattern)
    THEN <<Head(rules)>>
    ELSE matchAgainstRules(Tail(rules), relativePath, fileName)

\* new RegExp(src).test(s) for a source without anchors: some part of s
\* matches
TestAnywhere(src, s) ==
    \E i \in 1..(Len(s) + 1) : \E j \in (i - 1)..Len(s) :
        MatchAll(ParseRegex(src), SubSeq(s, i, j))

\* CommitScanner.globToRegex, without the '^' and the '$' it puts around
scannerGlobToRegex(glob) ==
    ReplaceAll(
        ReplaceAll(
            ReplaceAll(
                ReplaceAll(glob, <<".">>, <<"\\", ".">>),
                <<"*", "*">>, <<".", "*">>),
            <<"*">>, <<"[", "^", "/", "]", "*">>),
        <<"?">>, <<".">>)

\* CommitScanner.matchesPattern with the '.env' family taken as every name
\* that starts with '.env'
scannerMatchesPattern_Prefix(fullPath, fileName, pattern) ==
    LET normalizedPattern == StripOneSlash(pattern)
    IN  \/ fileName = normalizedPattern
        \/ fullPath = normalizedPattern
        \/ StartsWith(fullPath, normalizedPattern \o <<"/">>)
        \/ Includes(fullPath, <<"/">> \o normalizedPattern \o <<"/">>)
        \/ IF Includes(pattern, <<"*">>)
           THEN \/ TestWhole(scannerGlobToRegex(pattern), fileName)
                \/ TestWhole(scannerGlobToRegex(pattern), fullPath)
           ELSE /\ pattern = P_env
                /\ StartsWith(fileName, P_env)

\* CommitScanner.matchesPattern
scannerMatchesPattern(fullPath, fileName, pattern) ==
    LET normalizedPattern == StripOneSlash(pattern)
    IN  \/ fileName = normalizedPattern
        \/ fullPath = normalizedPattern
        \/ StartsWith(fullPath, normalizedPattern \o <<"/">>)
        \/ Includes(fullPath, <<"/">> \o normalizedPattern \o <<"/">>)
        \/ IF Includes(pattern, <<"*">>)
           THEN \/ TestWhole(scannerGlobToRegex(pattern), fileName)
                \/ TestWhole(scannerGlobToRegex(pattern), fullPath)
           ELSE /\ pattern = P_env
                /\ fileName = P_env \/ StartsWith(fileName, P_env \o <<".">>)

\* RuleEngine.globToRegex
ruleEngineGlobToRegex(glob) ==
    ReplaceAll(
        ReplaceAll(
            ReplaceAll(glob, <<".">>, <<"\\", ".">>),
            <<"*">>, <<".", "*">>),
        <<"?">>, <<".">>)

\* RuleEngine.matchesPattern
ruleEngineMatchesPattern(fullPath, fileName, pattern) ==
    LET normalizedPattern == StripOneSlash(pattern)
    IN  \/ fileName = normalizedPattern
        \/ Includes(fullPath, normalizedPattern)
        \/ IF Includes(pattern, <<"*">>)
           THEN \/ TestAnywhere(ruleEngineGlobToRegex(pattern), fileName)
                \/ TestAnywhere(ruleEngineGlobToRegex(pattern), fullPath)
           ELSE /\ EndsWith(pattern, <<"/">>)
                /\ LET dirName == SubSeq(pattern, 1, Len(pattern) - 1)
                   IN  \/ Includes(fullPath, <<"/">> \o dirName \o <<"/">>)
                       \/ StartsWith(fullPath, dirName \o <<"/">>)

\* the first rule of the list that RuleEngine.matchesPattern matches, as a
\* sequence of at most one rule (empty for null)
RECURSIVE FirstMatching(_, _, _)
FirstMatching(rules, normalizedPath, fileName) ==
    IF rules = <<>> THEN <<>>
    ELSE IF ruleEngineMatchesPattern(normalizedPath, fileName,
                                     Head(rules).pattern)
    THEN <<Head(rules)>>
    ELSE FirstMatching(Tail(rules), normalizedPath, fileName)

\* RuleEngine.matchesAnyRule
matchesAnyRule(filePath, rules) ==
    LET normalizedPath == ReplaceAll(filePath, <<"\\">>, <<"/">>)
    IN  FirstMatching(rules, normalizedPath, Basename(normalizedPath))

\* the patterns and the paths the matchers are asked about
P_build == <<"b", "u", "i", "l", "d">>
P_buildDir == <<"b", "u", "i", "l", "d", "/">>
P_deepLog == <<"a", "/", "*", "*", "/", "x", ".", "l", "o", "g">>
P_starLog == <<"a", "/", "*", "/", "x", ".", "l", "o", "g">>

MatchPatterns ==
    {P_env, P_build, P_buildDir, P_nodeModulesDir, P_log, P_deepLog,
     P_starLog}

MatchPaths ==
    {<<".", "e", "n", "v">>, <<".", "e", "n", "v", ".", "p", "r", "o", "d", "u", "c", "t", "i", "o", "n">>, <<".", "e", "n", "v", "i", "r", "o", "n", "m", "e", "n", "t">>, <<"c", "o", "n", "f", "i", "g", "/", ".", "e", "n", "v", ".", "l", "o", "c", "a", "l">>,
     <<"c", "o", "n", "f", "i", "g", "/", ".", "e", "n", "v", "i", "r", "o", "n", "m", "e", "n", "t">>, <<"b", "u", "i", "l", "d">>, <<"b", "u", "i", "l", "d", "/", "o", "u", "t", ".", "j", "s">>, <<"s", "r", "c", "/", "b", "u", "i", "l", "d", "/", "o", "u", "t", ".", "j", "s">>,
     <<"r", "e", "b", "u", "i", "l", "d", "/", "o", "u", "t", ".", "j", "s">>, <<"s", "r", "c", "/", "b", "u", "i", "l", "d">>, <<"n", "o", "d", "e", "_", "m", "o", "d", "u", "l", "e", "s", "/", "x", "/", "i", "n", "d", "e", "x", ".", "j", "s">>,
     <<"x", ".", "l", "o", "g">>, <<"l", "o", "g", "s", "/", "x", ".", "l", "o", "g">>, <<"x", ".", "l", "o", "g", ".", "b", "a", "k">>, <<"a", "/", "b", "/", "x", ".", "l", "o", "g">>, <<"a", "/", "b", "/", "c", "/", "x", ".", "l", "o", "g">>,
     <<"z", "/", "a", "/", "b", "/", "x", ".", "l", "o", "g">>}

R_build == Rule(P_buildDir, "recommended", T_deps)
R_deepLog == Rule(P_deepLog, "optional", T_logs)

MatchRuleLists ==
    {<<>>, <<R_env, R_log>>, <<R_log, R_env>>, <<R_build, R_env>>,
     <<R_deepLog, R_log>>, <<R_nodeModulesDir, R_build>>}

-----------------------------------------------------------------------------
(* RuleEngine.getRulesForDetections.  The rule sets come from JSON files;   *)
(* they are taken from a bounded set of catalogs.  A confidence is kept in  *)
(* hundredths.                                                              *)

\* DetectedFramework; the name plays no part and is left out
Detection(id, category, detectedAt, confidence) ==
    [id |-> id, ruleCategory |-> category, detectedAt |-> detectedAt,
     confidence |-> confidence]

\* the categories of the detections in the order they first appear: the
\* keys of byCategory
RECURSIVE CategoryOrder(_, _)
CategoryOrder(detections, seen) ==
    IF detections = <<>> THEN <<>>
    ELSE IF Head(detections).ruleCategory \in seen
    THEN CategoryOrder(Tail(detections), seen)
    ELSE <<Head(detections).ruleCategory>>
         \o CategoryOrder(Tail(detections),
                          seen \cup {Head(detections).ruleCategory})

\* byCategory.get(category)
RECURSIVE CategoryDetections(_, _)
CategoryDetections(detections, category) ==
    IF detections = <<>> THEN <<>>
    ELSE IF Head(detections).ruleCategory = category
    THEN <<Head(detections)>> \o CategoryDetections(Tail(detections), category)
    ELSE CategoryDetections(Tail(detections), category)

\* getRulesForCategory
getRulesForCategory(catalog, category) ==
    IF category \in DOMAIN catalog THEN catalog[category].rules ELSE <<>>

\* getFrameworkRules
getFrameworkRules(catalog, category, frameworkId) ==
    IF category \notin DOMAIN catalog THEN <<>>
    ELSE IF frameworkId \in DOMAIN catalog[category].frameworks
    THEN catalog[category].frameworks[frameworkId]
    ELSE <<>>

\* the rules are pushed whose pattern is not in seenPatterns, which holds the
\* patterns of allRules
RECURSIVE PushUnseen_Last(_, _)
PushUnseen_Last(allRules, rules) ==
    IF rules = <<>> THEN allRules
    ELSE IF /\ allRules # <<>>
            /\ allRules[Len(allRules)].pattern = Head(rules).pattern
    THEN PushUnseen_Last(allRules, Tail(rules))
    ELSE PushUnseen_Last(Append(allRules, Head(rules)), Tail(rules))

RECURSIVE PushUnseen(_, _)
PushUnseen(allRules, rules) ==
    IF rules = <<>> THEN allRules
    ELSE IF \E i \in 1..Len(allRules) : allRules[i].pattern = Head(rules).pattern
    THEN PushUnseen(allRules, Tail(rules))
    ELSE PushUnseen(Append(allRules, Head(rules)), Tail(rules))

\* the framework rules of the detections of one category, pushed in turn
RECURSIVE PushFrameworkRules(_, _, _, _)
PushFrameworkRules(allRules, catalog, category, categoryDetections) ==
    IF categoryDetections = <<>> THEN allRules
    ELSE PushFrameworkRules(
             PushUnseen(allRules,
                        getFrameworkRules(catalog, category,
                                          Head(categoryDetections).id)),
             catalog, category, Tail(categoryDetections))

\* the loop over byCategory with the rules of the frameworks pushed before
\* the base rules of the category
RECURSIVE PushCategories_FrameworksFirst(_, _, _, _)
PushCategories_FrameworksFirst(allRules, catalog, categories, detections) ==
    IF categories = <<>> THEN allRules
    ELSE PushCategories_FrameworksFirst(
             PushUnseen(
                 PushFrameworkRules(
                     allRules, catalog, Head(categories),
                     CategoryDetections(detections, Head(categories))),
                 getRulesForCategory(catalog, Head(categories))),
             catalog, Tail(categories), detections)

\* the loop over byCategory: the base rules of a category, then the rules of
\* its frameworks
RECURSIVE PushCategories(_, _, _, _)
PushCategories(allRules, catalog, categories, detections) ==
    IF categories = <<>> THEN allRules
    ELSE PushCategories(
             PushFrameworkRules(
                 PushUnseen(allRules,
                            getRulesForCategory(catalog, Head(categories))),
                 catalog, Head(categories),
                 CategoryDetections(detections, Head(categories))),
             catalog, Tail(categories), detections)

getRulesForDetections(catalog, detections) ==
    PushCategories(<<>>, catalog, CategoryOrder(detections, {}), detections)

\* rules that share a pattern with another rule
R_envFramework == Rule(P_env, "recommended", T_deps)
R_envPython == Rule(P_env, "critical", T_deps)
R_logPython == Rule(P_log, "recommended", T_deps)

\* two catalogs: patterns shared by base and framework rules within a
\* category and across categories, a pattern twice in one list, a category
\* without framework rules
CatalogShared ==
    [category \in {"node", "python"} |->
        IF category = "node"
        THEN [rules |-> <<R_nodeModulesDir, R_env>>,
              frameworks |->
                  [id \in {"react", "nextjs"} |->
                      IF id = "react" THEN <<R_envFramework, R_build>>
                      ELSE <<R_build, R_log>>]]
        ELSE [rules |-> <<R_envPython, R_logPython>>,
              frameworks |->
                  [id \in {"django"} |-> <<R_log, R_nodeModulesDir>>]]]

CatalogTwice ==
    [category \in {"node", "python"} |->
        IF category = "node"
        THEN [rules |-> <<R_env, R_envPython, R_log>>,
              frameworks |-> [id \in {"react"} |-> <<R_logPython, R_build>>]]
        ELSE [rules |-> <<R_build>>,
              frameworks |-> [id \in {} |-> <<>>]]]

Catalogs == {CatalogShared, CatalogTwice}

D_node == Detection("node", "node", <<"/", "w", "/", "p", "a", "c", "k", "a", "g", "e", ".", "j", "s", "o", "n">>, 80)
D_react == Detection("react", "node", <<"/", "w", "/", "p", "a", "c", "k", "a", "g", "e", ".", "j", "s", "o", "n">>, 85)
D_nextjs == Detection("nextjs", "node", <<"/", "w", "/", "p", "a", "c", "k", "a", "g", "e", ".", "j", "s", "o", "n">>, 95)
D_python == Detection("python", "python", <<"/", "w", "/", "r", "e", "q", "u", "i", "r", "e", "m", "e", "n", "t", "s", ".", "t", "x", "t">>, 80)
D_django == Detection("django", "python", <<"/", "w", "/", "r", "e", "q", "u", "i", "r", "e", "m", "e", "n", "t", "s", ".", "t", "x", "t">>, 90)

RuleDetections == {D_node, D_react, D_nextjs, D_python, D_django}

\* the detection lists getRulesForDetections is given
DetectionLists ==
    UNION {[1..k -> RuleDetections] : k \in 0..MaxDetections}

-----------------------------------------------------------------------------
(* DetectionEngine: the pure parts                                         *)

\* folder.uri.fsPath of the workspace folders
Root_w1 == <<"/", "w", "1">>

Root_w2 == <<"/", "w", "2">>

\* vscode.workspace.workspaceFolders: none, one root, two roots
Workspaces == {<<>>, <<Root_w1>>, <<Root_w1, Root_w2>>}

\* this.detectors, in the order of the constructor
detectors == <<"NodeDetector", "PythonDetector", "JavaDetector">>

\* a detector's promise rejects
Threw == [threw |-> TRUE, detected |-> <<>>]

\* a detector's promise resolves to its detections
Returned(detected) == [threw |-> FALSE, detected |-> detected]

F_packageJson == <<"p", "a", "c", "k", "a", "g", "e", ".", "j", "s", "o", "n">>

F_requirements == <<"r", "e", "q", "u", "i", "r", "e", "m", "e", "n", "t", "s", ".", "t", "x", "t">>

\* What detector.detect(folder) can settle to.  The disk may change between
\* two scans, so a detector need not answer twice alike.
DetectOutcomes(detector, folder) ==
    IF detector = "NodeDetector"
    THEN IF folder = Root_w1
         THEN {Returned(<<Detection("node", "node", F_packageJson, 80),
                          Detection("vite", "node", F_packageJson, 90)>>),
               Threw}
         ELSE {Returned(<<Detection("node", "node", F_packageJson, 80),
                          Detection("vite", "node", F_packageJson, 95)>>),
               Returned(<<>>)}
    ELSE IF detector = "PythonDetector"
    THEN IF folder = Root_w1
         THEN {Returned(<<Detection("python", "python", F_requirements, 80)>>)}
         ELSE {Returned(<<Detection("python", "python", F_requirements,
                                    80)>>)}
    ELSE IF folder = Root_w1
         THEN {Returned(<<>>), Threw}
         ELSE {Returned(<<>>)}

\* cachedResults.set(cacheKey, folderDetections)
CacheSet(map, key, value) ==
    [k \in DOMAIN map \cup {key} |-> IF k = key THEN value ELSE map[k]]

\* the cache check with forceRefresh ignored
UsesCache_Always(forceRefresh, cache, cacheKey) == cacheKey \in DOMAIN cache

\* the cache check of detectAll: !forceRefresh && cachedResults.has(cacheKey)
UsesCache(forceRefresh, cache, cacheKey) ==
    ~forceRefresh /\ cacheKey \in DOMAIN cache

\* a call of detectAll or detectInFolder that has just been made
NewDetectCall(op, forceRefresh, folders, cache) ==
    [pc |-> "loop", op |-> op, forceRefresh |-> forceRefresh,
     folders |-> folders, folder |-> 1, detector |-> 1,
     folderDetections |-> <<>>, allDetections |-> <<>>,
     ran |-> <<>>, hits |-> <<>>, cacheBefore |-> cache]

\* The for-loop over workspaceFolders up to its next await: the cached
\* results of the folders that have them are pushed, and the loop stops at
\* the first folder to scan or at the return.
RECURSIVE NextFolder(_, _)
NextFolder(call, cache) ==
    IF call.folder > Len(call.folders)
    THEN [call EXCEPT !.pc = "return"]
    ELSE LET cacheKey == call.folders[call.folder]
         IN  IF UsesCache(call.forceRefresh, cache, cacheKey)
             THEN NextFolder(
                      [call EXCEPT
                          !.allDetections = @ \o cache[cacheKey],
                          !.hits = Append(@, [root |-> cacheKey,
                                              cached |-> cache[cacheKey]]),
                          !.folder = @ + 1],
                      cache)
             ELSE [call EXCEPT !.pc = "detect", !.detector = 1,
                               !.folderDetections = <<>>]

\* the catch block with the error thrown again
Caught_Rethrow(call) == [call EXCEPT !.pc = "throw"]

\* the catch block of the loop over the detectors: the error is logged
Caught(call) == call

\* the body of the loop over the detectors once detector.detect has settled
AfterDetect(call, outcome) ==
    LET logged == [call EXCEPT
                      !.ran = Append(@, [root |-> call.folders[call.folder],
                                         detector |-> detectors[call.detector],
                                         threw |-> outcome.threw,
                                         detected |-> outcome.detected])]
    IN  IF outcome.threw
        THEN Caught(logged)
        ELSE [logged EXCEPT !.folderDetections = @ \o outcome.detected]

\* the cache after the loop over the detectors has ended for a folder
CacheAfterFolder(call, cache) ==
    CacheSet(cache, call.folders[call.folder], call.folderDetections)

\* The call after detector.detect has settled: the next detector, or the
\* folder's results cached and pushed and the loop over the folders resumed
\* (detectAll), or the folder's results returned (detectInFolder).
Resume(call, outcome, cache) ==
    LET after == AfterDetect(call, outcome)
    IN  IF after.pc = "throw" THEN after
        ELSE IF call.detector < Len(detectors)
        THEN [after EXCEPT !.detector = @ + 1]
        ELSE LET pushed == [after EXCEPT
                               !.allDetections = @ \o after.folderDetections,
                               !.folder = @ + 1]
             IN  IF call.op = "detectInFolder"
                 THEN [pushed EXCEPT !.pc = "return"]
                 ELSE NextFolder(pushed, CacheAfterFolder(after, cache))

\* what is known of an operation that has ended
DoneDetect(call, cache) ==
    [op |-> call.op, forceRefresh |-> call.forceRefresh,
     folders |-> call.folders, threw |-> call.pc = "throw",
     result |-> IF call.pc = "throw" THEN <<>> ELSE call.allDetections,
     ran |-> call.ran, hits |-> call.hits,
     cacheBefore |-> call.cacheBefore, cacheAfter |-> cache]

-----------------------------------------------------------------------------
(* The detectors: what detect() makes of the manifests it finds            *)

\* path.sep
PathSep == "/"

\* detectedAt.split(path.sep).length
PathDepth(detectedAt) ==
    1 + Cardinality({i \in 1..Len(detectedAt) : detectedAt[i] = PathSep})

\* byId.has(id)
ByIdHas(byId, id) == \E i \in 1..Len(byId) : byId[i].id = id

\* byId.get(id), when the key is there
ByIdGet(byId, id) == byId[CHOOSE i \in 1..Len(byId) : byId[i].id = id]

\* byId.set(detection.id, detection): a Map keeps the place of a key that is
\* set again
ByIdSet(byId, detection) ==
    IF ByIdHas(byId, detection.id)
    THEN [i \in 1..Len(byId) |->
             IF byId[i].id = detection.id THEN detection ELSE byId[i]]
    ELSE Append(byId, detection)

\* the loop of NodeDetector.deduplicateDetections
RECURSIVE DeduplicateInto(_, _)
DeduplicateInto(byId, detections) ==
    IF detections = <<>> THEN byId
    ELSE LET detection == Head(detections)
         IN  DeduplicateInto(
                 IF \/ ~ByIdHas(byId, detection.id)
                    \/ detection.confidence
                           > ByIdGet(byId, detection.id).confidence
                 THEN ByIdSet(byId, detection)
                 ELSE byId,
                 Tail(detections))

\* NodeDetector.deduplicateDetections
deduplicateDetections(detections) == DeduplicateInto(<<>>, detections)

\* the loop of JavaDetector.deduplicateByProximity
RECURSIVE DeduplicateByProximityInto(_, _)
DeduplicateByProximityInto(byId, detections) ==
    IF detections = <<>> THEN byId
    ELSE LET detection == Head(detections)
         IN  DeduplicateByProximityInto(
                 IF ~ByIdHas(byId, detection.id)
                 THEN ByIdSet(byId, detection)
                 ELSE IF PathDepth(detection.detectedAt)
                             < PathDepth(ByIdGet(byId, detection.id).detectedAt)
                 THEN ByIdSet(byId, detection)
                 ELSE byId,
                 Tail(detections))

\* JavaDetector.deduplicateByProximity
deduplicateByProximity(detections) ==
    DeduplicateByProximityInto(<<>>, detections)

\* The detections NodeDetector.detect collects from the package.json files
\* in the order findFiles gave them: 'node' for each that readJsonFile could
\* read and parse, and 'vite' where it is a dependency, with 0.05 more when a
\* vite config file lies next to it.
RECURSIVE NodeDetected(_)
NodeDetected(manifests) ==
    IF manifests = <<>> THEN <<>>
    ELSE LET manifest == Head(manifests)
         IN  (IF manifest.json = "null" THEN <<>>
              ELSE <<Detection("node", "node", manifest.path, 80)>>
                   \o (IF manifest.vite = "none" THEN <<>>
                       ELSE <<Detection("vite", "node", manifest.path,
                                        IF manifest.vite = "configured"
                                        THEN 95 ELSE 90)>>))
             \o NodeDetected(Tail(manifests))

\* the detections JavaDetector.detect collects: 'maven' for each pom.xml,
\* then 'gradle' for each build.gradle
JavaDetected(pomFiles, gradleFiles) ==
    [i \in 1..Len(pomFiles) |->
        Detection("maven", "java", pomFiles[i], 95)]
    \o [i \in 1..Len(gradleFiles) |->
           Detection("gradle", "java", gradleFiles[i], 95)]

\* NodeDetector.detect, given the package.json files found
NodeDetect(manifests) == deduplicateDetections(NodeDetected(manifests))

\* JavaDetector.detect, given the build files found
JavaDetect(pomFiles, gradleFiles) ==
    deduplicateByProximity(JavaDetected(pomFiles, gradleFiles))

\* the lists of up to MaxManifests different elements of a set, in every
\* order
ListsOf(S) ==
    {l \in UNION {[1..k -> S] : k \in 0..MaxManifests} :
        \A i, j \in 1..Len(l) : i # j => l[i] # l[j]}

PackageJsonPaths ==
    {F_packageJson, <<"a", "p", "p", "s", "/", "w", "e", "b", "/", "p", "a", "c", "k", "a", "g", "e", ".", "j", "s", "o", "n">>, <<"a", "p", "p", "s", "/", "a", "p", "i", "/", "p", "a", "c", "k", "a", "g", "e", ".", "j", "s", "o", "n">>}

\* the package.json files of a root, in the order findFiles gives them
ManifestLists ==
    {l \in UNION {[1..k -> [path : PackageJsonPaths,
                            json : {"object", "null"},
                            vite : {"none", "dependency", "configured"}]] :
                      k \in 0..MaxManifests} :
        /\ \A i, j \in 1..Len(l) : i # j => l[i].path # l[j].path
        /\ \A i \in 1..Len(l) : l[i].json = "null" => l[i].vite = "none"}

PomPaths == {<<"p", "o", "m", ".", "x", "m", "l">>, <<"s", "e", "r", "v", "i", "c", "e", "s", "/", "p", "o", "m", ".", "x", "m", "l">>, <<"s", "e", "r", "v", "i", "c", "e", "s", "/", "a", "p", "i", "/", "p", "o", "m", ".", "x", "m", "l">>}

GradlePaths == {<<"b", "u", "i", "l", "d", ".", "g", "r", "a", "d", "l", "e">>, <<"a", "p", "p", "/", "b", "u", "i", "l", "d", ".", "g", "r", "a", "d", "l", "e">>}

\* String.prototype.toLowerCase, on the package names of the model
ToLowerCase(pkg) ==
    IF pkg = "Django" THEN "django"
    ELSE IF pkg = "Flask" THEN "flask"
    ELSE pkg

\* the packages of all the requirements files and of pyproject.toml, in
\* lower case
AllPackages(disk) ==
    {ToLowerCase(pkg) :
        pkg \in UNION ({disk.requirements[i].packages :
                            i \in 1..Len(disk.requirements)}
                       \cup {disk.pyproject.packages})}

\* hasPythonSourceFiles: findFiles('**/*.py') finds a file
hasPythonSourceFiles(disk) == disk.pyFiles # {}

\* fileExists(workspaceFolder, name), for a file at the root
PyFileExists(disk, name) == name \in disk.pyFiles

\* isPythonProject with the Python source files left out of account
IsPythonProject_ManifestsOnly(disk) ==
    disk.requirements # <<>> \/ disk.pyproject.found

\* isPythonProject at the end of the checks of PythonDetector.detect
IsPythonProject(disk) ==
    \/ disk.requirements # <<>>
    \/ disk.pyproject.found
    \/ hasPythonSourceFiles(disk)

\* detectionSource
DetectionSource(disk) ==
    IF disk.requirements # <<>> THEN disk.requirements[1].path
    ELSE IF disk.pyproject.found THEN disk.pyproject.path
    ELSE <<"*", ".", "p", "y", " ", "f", "i", "l", "e", "s">>

\* frameworkPatterns of PythonDetector: django and flask
PythonFrameworkPatterns ==
    <<[id |-> "django", packages |-> {"django", "Django"},
       configFiles |-> <<"manage.py", "settings.py">>, confidence |-> 90],
      [id |-> "flask", packages |-> {"flask", "Flask"},
       configFiles |-> <<"app.py", "wsgi.py">>, confidence |-> 85]>>

\* Math.min(1, a), in hundredths
MinOne(a) == IF a > 100 THEN 100 ELSE a

\* the confidence of a framework whose package is listed
FrameworkConfidence(disk, framework) ==
    LET boosted ==
            IF \E i \in 1..Len(framework.configFiles) :
                   PyFileExists(disk, framework.configFiles[i])
            THEN MinOne(framework.confidence + 5)
            ELSE framework.confidence
    IN  IF framework.id = "django" /\ PyFileExists(disk, "manage.py")
        THEN 98
        ELSE boosted

\* the loop over frameworkPatterns
RECURSIVE PythonFrameworks(_, _)
PythonFrameworks(disk, patterns) ==
    IF patterns = <<>> THEN <<>>
    ELSE LET framework == Head(patterns)
         IN  (IF \E pkg \in framework.packages :
                     ToLowerCase(pkg) \in AllPackages(disk)
              THEN <<Detection(framework.id, "python", DetectionSource(disk),
                               FrameworkConfidence(disk, framework))>>
              ELSE <<>>)
             \o PythonFrameworks(disk, Tail(patterns))

\* PythonDetector.detect, given what lies in the root
PythonDetect(disk) ==
    IF ~IsPythonProject(disk) THEN <<>>
    ELSE LET detected ==
                 <<Detection("python", "python", DetectionSource(disk), 80)>>
                 \o PythonFrameworks(disk, PythonFrameworkPatterns)
         IN  IF /\ \A i \in 1..Len(detected) : detected[i].id # "django"
                /\ PyFileExists(disk, "manage.py")
             THEN Append(detected,
                         Detection("django", "python", <<"m", "a", "n", "a", "g", "e", ".", "p", "y">>, 95))
             ELSE detected

RequirementsPaths == {F_requirements, <<"r", "e", "q", "u", "i", "r", "e", "m", "e", "n", "t", "s", "-", "d", "e", "v", ".", "t", "x", "t">>}

\* the requirements*.txt files of a root in the order findFiles gives them,
\* each with the packages parseRequirementsTxt reads from it
RequirementsLists ==
    {l \in UNION {[1..k -> [path : RequirementsPaths,
                            packages : {{}, {"Django"}, {"flask"}}]] :
                      k \in 0..MaxManifests} :
        \A i, j \in 1..Len(l) : i # j => l[i].path # l[j].path}

\* pyproject.toml: absent, or found with the packages parsePyprojectToml
\* reads from it
PyProjects ==
    {[found |-> FALSE, path |-> <<>>, packages |-> {}]}
    \cup {[found |-> TRUE, path |-> <<"p", "y", "p", "r", "o", "j", "e", "c", "t", ".", "t", "o", "m", "l">>, packages |-> pkgs] :
             pkgs \in {{}, {"django"}}}

\* what lies in a root, for PythonDetector: the .py files are at the root
PythonDisks ==
    [requirements : RequirementsLists, pyproject : PyProjects,
     pyFiles : SUBSET {"manage.py", "settings.py", "app.py"}]

-----------------------------------------------------------------------------
(* CommitScanner: the staged files *)

\* CommitScanner.matchFile: the first rule whose pattern matches
RECURSIVE matchFile(_, _, _)
matchFile(relativePath, fileName, rules) ==
    IF rules = <<>> THEN <<>>
    ELSE IF scannerMatchesPattern(relativePath, fileName, Head(rules).pattern)
    THEN <<Head(rules)>>
    ELSE matchFile(relativePath, fileName, Tail(rules))

\* CommitScanner.scanStagedFiles: a warning for each staged file a rule
\* matches
RECURSIVE scanStagedFiles(_, _)
scanStagedFiles(changes, rules) ==
    IF changes = <<>> THEN <<>>
    ELSE LET relativePath == Head(changes)
             matchedRule == matchFile(relativePath, Basename(relativePath),
                                      rules)
         IN  (IF matchedRule = <<>> THEN <<>>
              ELSE <<[filePath |-> relativePath,
                      matchedPattern |-> matchedRule[1].pattern,
                      severity |-> matchedRule[1].severity,
                      reason |-> matchedRule[1].reason]>>)
             \o scanStagedFiles(Tail(changes), rules)

\* warnings.filter(w => w.severity === 'critical')
CriticalWarnings(warnings) ==
    SelectSeq(warnings, LAMBDA w : w.severity = "critical")

\* the rules performPreCommitCheck makes of the critical warnings
WarningRules(critical) ==
    [i \in 1..Len(critical) |->
        Rule(critical[i].matchedPattern, critical[i].severity,
             critical[i].reason)]

\* rules.filter(r => selectedPatterns.has(r.pattern))
SelectedRules(rules, selectedPatterns) ==
    SelectSeq(rules, LAMBDA r : r.pattern \in selectedPatterns)

\* no call of a function yet
NoProbe == [fn |-> "none", args |-> <<>>, done |-> FALSE, result |-> <<>>]

EmptyMap == [k \in {} |-> <<>>]

NoDetectCall == [pc |-> "idle"]

DetectSlots == 1..MaxDetectCalls

IdleDetect == [c \in DetectSlots |-> NoDetectCall]

\* the defaults of the settings in package.json
DefaultSettings ==
    [preCommitCheck |-> TRUE, modifyGitignoreAutomatically |-> FALSE]

\* no command of the extension is in flight
NoFlow ==
    [name |-> "none", pc |-> "idle", forcePrompt |-> FALSE, rules |-> <<>>,
     pattern |-> <<>>, answers |-> <<>>, result |-> "none"]

\* no command of the extension has run, nothing is staged
ExtInit ==
    /\ settings = DefaultSettings
    /\ indexChanges = <<>>
    /\ flow = NoFlow

\* nothing of the rule and detection engines has run
CoreInit ==
    /\ probe = NoProbe
    /\ workspace = <<>>
    /\ cachedResults = EmptyMap
    /\ detectCall = IdleDetect
    /\ detectDone = <<>>
    /\ ExtInit

-----------------------------------------------------------------------------
(* GitIgnoreHandler: the calls.  A call is suspended at each await: the    *)
(* read of getExistingPatterns, the second read, the stat of exists() and  *)
(* the writeFile.  Between two awaits it runs without interruption.        *)

Slots == 1..MaxCalls

NoResult == ResultFailed(<<>>, "(pending)")

Idle ==
    [pc |-> "idle", op |-> "none", rules |-> <<>>, label |-> <<>>,
     names |-> <<>>, toAdd |-> <<>>, alreadyExists |-> <<>>,
     newContent |-> <<>>, startFile |-> NoFile, readRes |-> ReadNull]

\* the outcomes of the host's file system calls; with faults, a read or a
\* stat of an existing file may fail and a write may throw
ReadOutcomes(faults) ==
    {IF file.exists THEN [ok |-> TRUE, content |-> file.content] ELSE ReadNull}
    \cup (IF faults THEN {ReadNull} ELSE {})

StatOutcomes(faults) ==
    {file.exists} \cup (IF faults THEN {FALSE} ELSE {})

WriteOutcomes(faults) ==
    {[ok |-> TRUE, thrown |-> [isError |-> FALSE, message |-> ""]]}
    \cup (IF faults
          THEN {[ok |-> FALSE, thrown |-> t] : t \in ThrownValues}
          ELSE {})

\* the call of slot c ends: its record goes to the history, the slot is free
Finish(c, outcome, result, missing, fileAfter, writeFailed) ==
    /\ calls' = [calls EXCEPT ![c] = Idle]
    /\ history' = Append(history,
           [op |-> calls[c].op, rules |-> calls[c].rules,
            label |-> calls[c].label, outcome |-> outcome,
            result |-> result, missing |-> missing,
            readRes |-> calls[c].readRes,
            startFile |-> calls[c].startFile, endFile |-> fileAfter,
            writeFailed |-> writeFailed])

\* what the catch block of addPatterns (and of create) does with a thrown value
CaughtOutcome == "returned"

\* a catch block that takes the message of whatever was thrown
CaughtResult_RawMessage(existing, thrown) ==
    ResultFailed(existing, thrown.message)

CaughtResult(existing, thrown) == ResultFailed(existing, errorMessage(thrown))

\* addPatterns(root, rules, label) is called: it awaits the read of
\* getExistingPatterns
BeginAddPatterns(c, rules, label) ==
    /\ calls[c].pc = "idle"
    /\ started < MaxOps
    /\ started' = started + 1
    /\ calls' = [calls EXCEPT ![c] =
           [Idle EXCEPT !.pc = "ap_existing", !.op = "addPatterns",
                        !.rules = rules, !.label = label,
                        !.startFile = file]]
    /\ UNCHANGED <<file, history>>

StartAddPatterns(c, rules, label) ==
    BeginAddPatterns(c, rules, label) /\ UNCHANGED <<watchVars, coreVars>>

\* addPattern(root, pattern, reason) wraps the pattern in a recommended rule
BeginAddPattern(c, pattern, reason) ==
    /\ calls[c].pc = "idle"
    /\ started < MaxOps
    /\ started' = started + 1
    /\ calls' = [calls EXCEPT ![c] =
           [Idle EXCEPT !.pc = "ap_existing", !.op = "addPattern",
                        !.rules = <<Rule(pattern, "recommended",
                                         IF reason # <<>> THEN reason
                                         ELSE AddedByUser)>>,
                        !.startFile = file]]
    /\ UNCHANGED <<file, history>>

StartAddPattern(c, pattern, reason) ==
    BeginAddPattern(c, pattern, reason) /\ UNCHANGED <<watchVars, coreVars>>

\* the read of getExistingPatterns returns: the rules are split into toAdd
\* and alreadyExists; with nothing to add the call returns, otherwise it
\* awaits the second read
AddPatternsExisting(c, faults) ==
    /\ calls[c].pc = "ap_existing"
    /\ \E r \in ReadOutcomes(faults) :
          LET existing == getExistingPatterns(r)
              toAdd == MissingRules(calls[c].rules, existing)
              alreadyExists == AlreadyExists(calls[c].rules, existing)
          IN  IF toAdd = <<>>
              THEN /\ Finish(c, "returned", ResultOk(<<>>, alreadyExists),
                             <<>>, file, FALSE)
                   /\ UNCHANGED <<file, started>>
              ELSE /\ calls' = [calls EXCEPT ![c].pc = "ap_read",
                                             ![c].toAdd = toAdd,
                                             ![c].alreadyExists = alreadyExists]
                   /\ UNCHANGED <<file, started, history>>
    /\ UNCHANGED <<watchVars, coreVars>>

\* the second read returns: the new content is built and writeFile is awaited
AddPatternsRead(c, faults) ==
    /\ calls[c].pc = "ap_read"
    /\ \E r \in ReadOutcomes(faults) :
          calls' = [calls EXCEPT
              ![c].pc = "ap_write",
              ![c].readRes = r,
              ![c].newContent =
                  AppendedContent(r, calls[c].toAdd, calls[c].label)]
    /\ UNCHANGED <<file, started, history>>
    /\ UNCHANGED <<watchVars, coreVars>>

\* writeFile returns or throws; the call returns its result
AddPatternsWrite(c, faults) ==
    /\ calls[c].pc = "ap_write"
    /\ \E w \in WriteOutcomes(faults) :
          IF w.ok
          THEN /\ file' = FileOf(calls[c].newContent)
               /\ Finish(c, "returned",
                         ResultOk(Patterns(calls[c].toAdd),
                                  calls[c].alreadyExists),
                         <<>>, FileOf(calls[c].newContent), FALSE)
          ELSE /\ file' = file
               /\ Finish(c, CaughtOutcome,
                         CaughtResult(calls[c].alreadyExists, w.thrown),
                         <<>>, file, TRUE)
    /\ UNCHANGED started
    /\ UNCHANGED <<watchVars, coreVars>>

\* create(root, rules, detections) is called: it awaits the stat of exists()
BeginCreate(c, rules, names) ==
    /\ calls[c].pc = "idle"
    /\ started < MaxOps
    /\ started' = started + 1
    /\ calls' = [calls EXCEPT ![c] =
           [Idle EXCEPT !.pc = "cr_exists", !.op = "create",
                        !.rules = rules, !.names = names,
                        !.startFile = file]]
    /\ UNCHANGED <<file, history>>

StartCreate(c, rules, names) ==
    BeginCreate(c, rules, names) /\ UNCHANGED <<watchVars, coreVars>>

\* exists() returns: with a file, create goes on as addPatterns with the
\* framework names as the label; without one it builds the content and awaits
\* writeFile
CreateExists(c, faults) ==
    /\ calls[c].pc = "cr_exists"
    /\ \E found \in StatOutcomes(faults) :
          IF found
          THEN calls' = [calls EXCEPT
                   ![c].pc = "ap_existing",
                   ![c].label = JoinComma(calls[c].names)]
          ELSE calls' = [calls EXCEPT
                   ![c].pc = "cr_write",
                   ![c].newContent =
                       CreatedContent(calls[c].rules, calls[c].names)]
    /\ UNCHANGED <<file, started, history>>
    /\ UNCHANGED <<watchVars, coreVars>>

\* the writeFile of create returns or throws
CreateWrite(c, faults) ==
    /\ calls[c].pc = "cr_write"
    /\ \E w \in WriteOutcomes(faults) :
          IF w.ok
          THEN /\ file' = FileOf(calls[c].newContent)
               /\ Finish(c, "returned",
                         ResultOk(Patterns(calls[c].rules), <<>>),
                         <<>>, FileOf(calls[c].newContent), FALSE)
          ELSE /\ file' = file
               /\ Finish(c, CaughtOutcome, CaughtResult(<<>>, w.thrown),
                         <<>>, file, TRUE)
    /\ UNCHANGED started
    /\ UNCHANGED <<watchVars, coreVars>>

\* findMissingPatterns(root, rules) is called: it awaits the read of
\* getExistingPatterns
BeginFindMissing(c, rules) ==
    /\ calls[c].pc = "idle"
    /\ started < MaxOps
    /\ started' = started + 1
    /\ calls' = [calls EXCEPT ![c] =
           [Idle EXCEPT !.pc = "fm_existing", !.op = "findMissingPatterns",
                        !.rules = rules, !.startFile = file]]
    /\ UNCHANGED <<file, history>>

StartFindMissing(c, rules) ==
    BeginFindMissing(c, rules) /\ UNCHANGED <<watchVars, coreVars>>

\* the read returns and findMissingPatterns returns the filtered rules
FindMissingExisting(c, faults) ==
    /\ calls[c].pc = "fm_existing"
    /\ \E r \in ReadOutcomes(faults) :
          /\ calls' = [calls EXCEPT ![c] = Idle]
          /\ history' = Append(history,
                 [op |-> calls[c].op, rules |-> calls[c].rules,
                  label |-> calls[c].label, outcome |-> "returned",
                  result |-> NoResult,
                  missing |-> MissingRules(calls[c].rules,
                                           getExistingPatterns(r)),
                  readRes |-> r,
                  startFile |-> calls[c].startFile, endFile |-> file,
                  writeFailed |-> FALSE])
    /\ UNCHANGED <<file, started>>
    /\ UNCHANGED <<watchVars, coreVars>>

-----------------------------------------------------------------------------
(* FileWatcher, with the parts of GitGuardExtension and of                 *)
(* NotificationManager it works with.  Every callback runs without         *)
(* interruption up to its next await.  Time is the clock of the host: a    *)
(* timer that is due fires before the clock moves on.                      *)

\* private readonly debounceDelay = 500; // ms
debounceDelay == 500

\* one tick of the clock, in ms
TickMs == debounceDelay \div 2

\* the files that get created, relative to the workspace root
F_env == P_env
F_envLocal == P_env \o <<".", "l", "o", "c", "a", "l">>
F_log == <<"a", ".", "l", "o", "g">>
F_src == <<"s", "r", "c", "/", "a", ".", "t", "s">>

CreatedPaths == {F_env, F_envLocal, F_log, F_src}

\* the rule lists getRulesForDetections gives initialize: none when no
\* framework is detected
DetectedRuleLists == {<<>>, <<R_env, R_log>>}

\* the texts of the buttons; Dismissed stands for a prompt closed without a
\* choice (undefined)
Dismissed == "(dismissed)"

SingleChoices ==
    {"Add to .gitignore", "Ignore Once", "Don't Warn Again", Dismissed}

BatchChoices == {"Add All to .gitignore", "View Details", "Ignore", Dismissed}

\* pendingNotifications.set(event.filePath, event): a Map keeps the place of
\* a key that is set again
MapSet(pending, event) ==
    IF \E i \in 1..Len(pending) : pending[i].filePath = event.filePath
    THEN [i \in 1..Len(pending) |->
             IF pending[i].filePath = event.filePath THEN event
             ELSE pending[i]]
    ELSE Append(pending, event)

\* clearTimeout(this.debounceTimer), when the handle is set
ClearedTimers(handle) == {t \in timers : t.id # handle}

\* queueNotification: the timers of the host after the timer that is set is
\* cleared and a new one is set
RearmedTimers_KeepOld(handle, id) ==
    timers \cup {[id |-> id, due |-> now + debounceDelay]}

RearmedTimers(handle, id) ==
    (IF handle # 0 THEN ClearedTimers(handle) ELSE timers)
    \cup {[id |-> id, due |-> now + debounceDelay]}

\* processPendingNotifications: the events taken and what stays in the map
TakenEvents(pending) == pending

LeftPending_Kept(pending) == pending

LeftPending(pending) == <<>>

\* showBatchNotification: the rule of the first event of each pattern, in the
\* order the patterns are first seen
RECURSIVE UniqueRules(_, _)
UniqueRules(events, seen) ==
    IF events = <<>> THEN <<>>
    ELSE IF Head(events).matchedPattern \in seen
    THEN UniqueRules(Tail(events), seen)
    ELSE <<Head(events).rule>>
         \o UniqueRules(Tail(events), seen \cup {Head(events).matchedPattern})

EventIds(events) == {events[i].id : i \in 1..Len(events)}

EventPatterns(events) == {events[i].matchedPattern : i \in 1..Len(events)}

\* stop() without the clearTimeout
StopWatcher_TimerLeft ==
    /\ timers' = timers
    /\ debounceTimer' = 0
    /\ pendingNotifications' = <<>>
    /\ watcher' = FALSE
    /\ UNCHANGED activeRules

\* stop(): the timer is cleared, the map is emptied, the subscription and
\* the watcher are disposed
StopWatcher ==
    /\ timers' = IF debounceTimer # 0 THEN ClearedTimers(debounceTimer)
                 ELSE timers
    /\ debounceTimer' = 0
    /\ pendingNotifications' = <<>>
    /\ watcher' = FALSE
    /\ UNCHANGED activeRules

\* start(rules): the rules are set, stop() runs, a new watcher is created
StartWatcher(rules) ==
    /\ activeRules' = rules
    /\ timers' = IF debounceTimer # 0 THEN ClearedTimers(debounceTimer)
                 ELSE timers
    /\ debounceTimer' = 0
    /\ pendingNotifications' = <<>>
    /\ watcher' = TRUE

\* handleConfigurationChange, with the settings as they are after the change
HandleConfigurationChange(cfg) ==
    IF ~cfg.enabled THEN StopWatcher
    ELSE IF cfg.watchFileCreation THEN StartWatcher(applicableRules)
    ELSE StopWatcher

\* initialize, after detectAll has returned: without a detection it returns;
\* otherwise it sets the rules and starts the watcher when watchFileCreation
\* is set
Initialize(rules) ==
    /\ ~initialized
    /\ initialized' = TRUE
    /\ IF rules = <<>>
       THEN UNCHANGED <<applicableRules, watcher, activeRules,
                        pendingNotifications, debounceTimer, timers>>
       ELSE /\ applicableRules' = rules
            /\ IF config.watchFileCreation
               THEN StartWatcher(rules)
               ELSE UNCHANGED <<watcher, activeRules, pendingNotifications,
                                debounceTimer, timers>>
    /\ UNCHANGED coreVars
    /\ UNCHANGED <<gitVars, config, now, permanentlyDismissed,
                   sessionSuppressed, handlers, prompts, nextId, flushed, userDismissed>>

\* the user changes a setting of gitGuard: onDidChangeConfiguration runs
\* handleConfigurationChange
UserChangesConfig(key) ==
    /\ key \in {"enabled", "watchFileCreation"}
    /\ config' = [config EXCEPT ![key] = ~config[key]]
    /\ HandleConfigurationChange(config')
    /\ UNCHANGED coreVars
    /\ UNCHANGED <<gitVars, initialized, applicableRules, now,
                   permanentlyDismissed, sessionSuppressed, handlers, prompts,
                   nextId, flushed, userDismissed>>

\* a file is created and onDidCreate calls handleFileCreated, which returns
\* when there is no rule and otherwise awaits isIgnored
FileCreated(path) ==
    /\ watcher
    /\ nextId <= MaxEvents
    /\ activeRules # <<>>
    /\ handlers' = handlers \cup {[id |-> nextId, path |-> path]}
    /\ nextId' = nextId + 1
    /\ UNCHANGED coreVars
    /\ UNCHANGED <<gitVars, config, initialized, applicableRules, watcher,
                   activeRules, pendingNotifications, debounceTimer, timers,
                   now, permanentlyDismissed, sessionSuppressed, prompts, flushed, userDismissed>>

\* handleFileCreated without the look at the suppressedWarnings setting
RuleToQueue_SettingUnread(ignored, path) ==
    LET matched == matchAgainstRules(activeRules, path, Basename(path))
    IN  IF ignored THEN <<>>
        ELSE IF matched = <<>> THEN <<>>
        ELSE IF matched[1].pattern \in permanentlyDismissed THEN <<>>
        ELSE matched

\* the checks handleFileCreated makes after isIgnored: the rule of the event
\* to queue, as a sequence of at most one rule
RuleToQueue(ignored, path) ==
    LET matched == matchAgainstRules(activeRules, path, Basename(path))
    IN  IF ignored THEN <<>>
        ELSE IF matched = <<>> THEN <<>>
        ELSE IF matched[1].pattern \in permanentlyDismissed THEN <<>>
        ELSE IF matched[1].pattern \in config.suppressedWarnings THEN <<>>
        ELSE matched

\* isIgnored returns to a suspended handleFileCreated: the event is dropped
\* or queued; queueNotification puts it into the map, clears the timer that
\* is set and sets a new one.  The time an event is queued is kept with it as
\* at, a field RiskyFileEvent does not have.
FileCreatedResumes(h) ==
    /\ h \in handlers
    /\ handlers' = handlers \ {h}
    /\ \E r \in ReadOutcomes(FALSE) :
          LET rule == RuleToQueue(isIgnored(r, h.path), h.path)
              event == [id |-> h.id, filePath |-> h.path,
                        matchedPattern |-> rule[1].pattern, rule |-> rule[1],
                        at |-> now]
          IN  IF rule = <<>>
              THEN UNCHANGED <<pendingNotifications, debounceTimer, timers>>
              ELSE /\ pendingNotifications' =
                          MapSet(pendingNotifications, event)
                   /\ timers' = RearmedTimers(debounceTimer, h.id)
                   /\ debounceTimer' = h.id
    /\ UNCHANGED coreVars
    /\ UNCHANGED <<gitVars, config, initialized, applicableRules, watcher,
                   activeRules, now, permanentlyDismissed, sessionSuppressed,
                   prompts, nextId, flushed, userDismissed>>

\* the clock moves on by one tick, unless a timer is due
Tick ==
    /\ now < MaxTicks * TickMs
    /\ \A t \in timers : t.due > now
    /\ now' = now + TickMs
    /\ UNCHANGED coreVars
    /\ UNCHANGED <<gitVars, config, initialized, applicableRules, watcher,
                   activeRules, pendingNotifications, debounceTimer, timers,
                   permanentlyDismissed, sessionSuppressed, handlers, prompts,
                   nextId, flushed, userDismissed>>

\* the debounce timer fires: processPendingNotifications takes the events and
\* clears the map; one event goes to showRiskyFileWarning, which shows no
\* prompt for a pattern of sessionSuppressed, more than one go to the prompt
\* of showBatchNotification
TimerFires(t) ==
    /\ t \in timers
    /\ t.due <= now
    /\ timers' = timers \ {t}
    /\ LET events == TakenEvents(pendingNotifications)
           shown ==
               /\ events # <<>>
               /\ Len(events) > 1
                  \/ events[1].matchedPattern \notin sessionSuppressed
           kind == IF Len(events) > 1 THEN "batch" ELSE "single"
       IN  /\ pendingNotifications' = LeftPending(pendingNotifications)
           /\ flushed' = flushed \cup EventIds(events)
           /\ IF shown
              THEN prompts' = prompts \cup
                       {[id |-> t.id, pc |-> "prompt", kind |-> kind,
                         events |-> events]}
              ELSE UNCHANGED prompts
    /\ UNCHANGED coreVars
    /\ UNCHANGED <<gitVars, config, initialized, applicableRules, watcher,
                   activeRules, debounceTimer, now, permanentlyDismissed,
                   sessionSuppressed, handlers, nextId,
                   userDismissed>>

\* the user answers the prompt of showRiskyFileWarning
UserAnswersSingle(f, choice) ==
    /\ f \in prompts
    /\ f.pc = "prompt"
    /\ f.kind = "single"
    /\ choice \in SingleChoices
    /\ LET event == f.events[1]
       IN  CASE choice = "Add to .gitignore" ->
                   \* addPattern is awaited, showInfo follows
                   /\ \E c \in Slots :
                         BeginAddPattern(c, event.rule.pattern,
                                         event.rule.reason)
                   /\ prompts' = prompts \ {f}
                   /\ UNCHANGED <<permanentlyDismissed, sessionSuppressed,
                                  userDismissed>>
             [] choice = "Don't Warn Again" ->
                   \* config.update is awaited when the pattern is new
                   /\ sessionSuppressed' =
                          sessionSuppressed \cup {event.matchedPattern}
                   /\ permanentlyDismissed' =
                          permanentlyDismissed \cup {event.matchedPattern}
                   /\ userDismissed' =
                          userDismissed \cup {event.matchedPattern}
                   /\ prompts' =
                          IF event.matchedPattern \in config.suppressedWarnings
                          THEN prompts \ {f}
                          ELSE (prompts \ {f}) \cup
                               {[f EXCEPT !.pc = "update"]}
                   /\ UNCHANGED gitVars
             [] OTHER ->
                   /\ prompts' = prompts \ {f}
                   /\ UNCHANGED <<gitVars, permanentlyDismissed,
                                  sessionSuppressed, userDismissed>>
    /\ UNCHANGED coreVars
    /\ UNCHANGED <<config, initialized, applicableRules, watcher, activeRules,
                   pendingNotifications, debounceTimer, timers, now, handlers,
                   nextId, flushed>>

\* config.update of addToSuppressedWarnings takes effect: the pattern is in
\* the settings, and onDidChangeConfiguration runs handleConfigurationChange
SuppressedWarningsUpdated(f) ==
    /\ f \in prompts
    /\ f.pc = "update"
    /\ prompts' = prompts \ {f}
    /\ config' = [config EXCEPT !.suppressedWarnings =
                      @ \cup {f.events[1].matchedPattern}]
    /\ HandleConfigurationChange(config')
    /\ UNCHANGED coreVars
    /\ UNCHANGED <<gitVars, initialized, applicableRules, now,
                   permanentlyDismissed, sessionSuppressed, handlers, nextId,
                   flushed, userDismissed>>

\* the user answers the prompt of showBatchNotification
UserAnswersBatch(f, choice) ==
    /\ f \in prompts
    /\ f.pc = "prompt"
    /\ f.kind = "batch"
    /\ choice \in BatchChoices
    /\ prompts' = prompts \ {f}
    /\ IF choice = "Add All to .gitignore"
       THEN \E c \in Slots :
               BeginAddPatterns(c, UniqueRules(f.events, {}), <<>>)
       ELSE UNCHANGED gitVars
    /\ UNCHANGED coreVars
    /\ UNCHANGED <<config, initialized, applicableRules, watcher, activeRules,
                   pendingNotifications, debounceTimer, timers, now,
                   permanentlyDismissed, sessionSuppressed, handlers, nextId, flushed, userDismissed>>

WatchInit ==
    /\ config = [enabled |-> TRUE, watchFileCreation |-> TRUE,
                 suppressedWarnings |-> {}]
    /\ initialized = FALSE
    /\ applicableRules = <<>>
    /\ watcher = FALSE
    /\ activeRules = <<>>
    /\ pendingNotifications = <<>>
    /\ debounceTimer = 0
    /\ timers = {}
    /\ now = 0
    /\ permanentlyDismissed = {}
    /\ sessionSuppressed = {}
    /\ handlers = {}
    /\ prompts = {}
    /\ nextId = 1
    /\ flushed = {}
    /\ userDismissed = {}

GitInit ==
    /\ file \in InitialFiles
    /\ calls = [c \in Slots |-> Idle]
    /\ started = 0
    /\ history = <<>>
    /\ WatchInit
    /\ CoreInit

\* the patterns a user types into addPatternInteractive (trimmed by the caller)
TypedPatterns == {P_env, P_hash}

TypedReasons == {<<>>, T_secrets}

\* one handler call at a time, on a file system that may fail
NextSeq ==
    \/ \E rules \in RuleLists, label \in Labels :
          StartAddPatterns(1, rules, label)
    \/ \E p \in TypedPatterns, reason \in TypedReasons :
          StartAddPattern(1, p, reason)
    \/ \E rules \in RuleLists, names \in DetectionNames :
          StartCreate(1, rules, names)
    \/ \E rules \in RuleLists : StartFindMissing(1, rules)
    \/ AddPatternsExisting(1, TRUE)
    \/ AddPatternsRead(1, TRUE)
    \/ AddPatternsWrite(1, TRUE)
    \/ CreateExists(1, TRUE)
    \/ CreateWrite(1, TRUE)
    \/ FindMissingExisting(1, TRUE)

SpecSeq == GitInit /\ [][NextSeq]_vars

\* the calls the handlers of the extension issue (addPatterns and addPattern),
\* overlapping at their awaits, on a file system that works
NextConc ==
    \E c \in Slots :
        \/ \E rules \in RuleLists, label \in Labels :
              StartAddPatterns(c, rules, label)
        \/ \E p \in TypedPatterns, reason \in TypedReasons :
              StartAddPattern(c, p, reason)
        \/ AddPatternsExisting(c, FALSE)
        \/ AddPatternsRead(c, FALSE)
        \/ AddPatternsWrite(c, FALSE)

SpecConc == GitInit /\ [][NextConc]_vars

\* the same with create among the calls
NextCreate ==
    \/ NextConc
    \/ \E c \in Slots :
          \/ \E rules \in RuleLists, names \in DetectionNames :
                StartCreate(c, rules, names)
          \/ CreateExists(c, FALSE)
          \/ CreateWrite(c, FALSE)

SpecCreate == GitInit /\ [][NextCreate]_vars

\* one handler call at a time, on a file system that works
NextPlain ==
    \/ \E rules \in RuleLists, label \in Labels :
          StartAddPatterns(1, rules, label)
    \/ \E p \in TypedPatterns, reason \in TypedReasons :
          StartAddPattern(1, p, reason)
    \/ \E rules \in RuleLists, names \in DetectionNames :
          StartCreate(1, rules, names)
    \/ \E rules \in RuleLists : StartFindMissing(1, rules)
    \/ AddPatternsExisting(1, FALSE)
    \/ AddPatternsRead(1, FALSE)
    \/ AddPatternsWrite(1, FALSE)
    \/ CreateExists(1, FALSE)
    \/ CreateWrite(1, FALSE)
    \/ FindMissingExisting(1, FALSE)

SpecPlain == GitInit /\ [][NextPlain]_vars

\* the contents .gitignore starts with when the watcher is looked at
WatchInitialFiles == {NoFile, FileOf(<<"#", "x", NL>> \o P_log \o <<NL>>)}

WatcherInit ==
    /\ file \in WatchInitialFiles
    /\ calls = [c \in Slots |-> Idle]
    /\ started = 0
    /\ history = <<>>
    /\ WatchInit
    /\ CoreInit

\* the watcher in a window whose settings name a suppressed pattern, left
\* there by "Don't Warn Again" in an earlier session
SuppressedInit ==
    /\ file \in WatchInitialFiles
    /\ calls = [c \in Slots |-> Idle]
    /\ started = 0
    /\ history = <<>>
    /\ config = [enabled |-> TRUE, watchFileCreation |-> TRUE,
                 suppressedWarnings |-> {P_log}]
    /\ initialized = FALSE
    /\ applicableRules = <<>>
    /\ watcher = FALSE
    /\ activeRules = <<>>
    /\ pendingNotifications = <<>>
    /\ debounceTimer = 0
    /\ timers = {}
    /\ now = 0
    /\ permanentlyDismissed = {}
    /\ sessionSuppressed = {}
    /\ handlers = {}
    /\ prompts = {}
    /\ nextId = 1
    /\ flushed = {}
    /\ userDismissed = {}
    /\ CoreInit

\* the watcher, the user, the clock, and the addPattern(s) calls the answers
\* of the user start
NextWatch ==
    \/ \E rules \in DetectedRuleLists : Initialize(rules)
    \/ \E key \in {"enabled", "watchFileCreation"} : UserChangesConfig(key)
    \/ \E path \in CreatedPaths : FileCreated(path)
    \/ \E h \in handlers : FileCreatedResumes(h)
    \/ Tick
    \/ \E t \in timers : TimerFires(t)
    \/ \E f \in prompts, choice \in SingleChoices : UserAnswersSingle(f, choice)
    \/ \E f \in prompts : SuppressedWarningsUpdated(f)
    \/ \E f \in prompts, choice \in BatchChoices : UserAnswersBatch(f, choice)
    \/ \E c \in Slots :
          \/ AddPatternsExisting(c, FALSE)
          \/ AddPatternsRead(c, FALSE)
          \/ AddPatternsWrite(c, FALSE)

SpecWatch == WatcherInit /\ [][NextWatch]_vars

SpecSuppressed == SuppressedInit /\ [][NextWatch]_vars

\* The watcher and the clock of the host while the prompts stay unanswered.
\* isIgnored returns early enough for the timer it leads to to fall due
\* before the clock of the model stops.
NextDrain ==
    \/ \E rules \in DetectedRuleLists : Initialize(rules)
    \/ \E key \in {"enabled", "watchFileCreation"} : UserChangesConfig(key)
    \/ \E path \in CreatedPaths : FileCreated(path)
    \/ \E h \in handlers :
          /\ now + debounceDelay <= MaxTicks * TickMs
          /\ FileCreatedResumes(h)
    \/ Tick
    \/ \E t \in timers : TimerFires(t)

\* the clock of the host moves on, and the host runs the callback of a timer
\* that is due
DrainFairness ==
    /\ WF_vars(Tick)
    /\ WF_vars(\E t \in timers : TimerFires(t))

SpecDrain == WatcherInit /\ [][NextDrain]_vars /\ DrainFairness

-----------------------------------------------------------------------------
(* The functions without side effects, each called on arguments from a     *)
(* bounded set: the call and what it returned are kept in probe.           *)

\* a call that waits to be made
Question(fn, args) == [fn |-> fn, args |-> args, done |-> FALSE, result |-> <<>>]

Asked(fn) == probe.fn = fn /\ ~probe.done

Answer(result) ==
    /\ probe' = [probe EXCEPT !.done = TRUE, !.result = result]
    /\ UNCHANGED <<gitVars, watchVars, workspace, cachedResults, detectCall,
                   detectDone, extVars>>

\* the calls of the matchers: the base name is the one of the path, as
\* matchAgainstRules and matchFile pass it
\* what .gitignore holds when isIgnored reads it
IgnoreContents ==
    {<<"e", "n", "v">> \o <<NL>>, P_env \o <<NL>>, P_log \o <<NL>>,
     <<"#", " ", "b", "u", "i", "l", "d">> \o <<NL>> \o P_buildDir \o <<NL>>}

MatchQuestions ==
    {Question(fn, <<f, Basename(f), p>>) :
        fn \in {"FileWatcher.matchesPattern", "CommitScanner.matchesPattern"},
        f \in MatchPaths, p \in MatchPatterns}
    \cup {Question("RuleEngine.matchesAnyRule", <<f, rules>>) :
            f \in MatchPaths, rules \in MatchRuleLists}
    \cup {Question("GitIgnoreHandler.isIgnored", <<content, f>>) :
            content \in IgnoreContents, f \in MatchPaths}

MatchInit ==
    /\ file = NoFile
    /\ calls = [c \in Slots |-> Idle]
    /\ started = 0
    /\ history = <<>>
    /\ WatchInit
    /\ probe \in MatchQuestions
    /\ workspace = <<>>
    /\ cachedResults = EmptyMap
    /\ detectCall = IdleDetect
    /\ detectDone = <<>>
    /\ ExtInit

\* FileWatcher.matchesPattern
AskWatcher ==
    /\ Asked("FileWatcher.matchesPattern")
    /\ Answer(watcherMatchesPattern(probe.args[1], probe.args[2],
                                    probe.args[3]))

\* CommitScanner.matchesPattern
AskScanner ==
    /\ Asked("CommitScanner.matchesPattern")
    /\ Answer(scannerMatchesPattern(probe.args[1], probe.args[2],
                                    probe.args[3]))

\* RuleEngine.matchesAnyRule
AskRuleEngine ==
    /\ Asked("RuleEngine.matchesAnyRule")
    /\ Answer(matchesAnyRule(probe.args[1], probe.args[2]))

\* GitIgnoreHandler.isIgnored, with the read of .gitignore giving the content
AskIsIgnored ==
    /\ Asked("GitIgnoreHandler.isIgnored")
    /\ Answer(isIgnored([ok |-> TRUE, content |-> probe.args[1]],
                        probe.args[2]))

NextMatch ==
    \/ AskWatcher
    \/ AskScanner
    \/ AskRuleEngine
    \/ AskIsIgnored

SpecMatch == MatchInit /\ [][NextMatch]_vars

RuleQuestions ==
    {Question("RuleEngine.getRulesForDetections", <<catalog, detections>>) :
        catalog \in Catalogs, detections \in DetectionLists}

RulesInit ==
    /\ file = NoFile
    /\ calls = [c \in Slots |-> Idle]
    /\ started = 0
    /\ history = <<>>
    /\ WatchInit
    /\ probe \in RuleQuestions
    /\ workspace = <<>>
    /\ cachedResults = EmptyMap
    /\ detectCall = IdleDetect
    /\ detectDone = <<>>
    /\ ExtInit

\* RuleEngine.getRulesForDetections
AskRules ==
    /\ Asked("RuleEngine.getRulesForDetections")
    /\ Answer(getRulesForDetections(probe.args[1], probe.args[2]))

NextRules == AskRules

SpecRules == RulesInit /\ [][NextRules]_vars

-----------------------------------------------------------------------------
(* DetectionEngine: the calls.  A call is suspended at each await of       *)
(* detector.detect; the rest of the loop runs without interruption.        *)

DetectOps ==
    Len(detectDone) + Cardinality({c \in DetectSlots :
                                       detectCall[c].pc # "idle"})

\* a call goes on to its next await, or ends
Proceed(c, call, cache) ==
    /\ cachedResults' = cache
    /\ IF call.pc \in {"return", "throw"}
       THEN /\ detectCall' = [detectCall EXCEPT ![c] = NoDetectCall]
            /\ detectDone' = Append(detectDone, DoneDetect(call, cache))
       ELSE /\ detectCall' = [detectCall EXCEPT ![c] = call]
            /\ UNCHANGED detectDone

\* detectAll(forceRefresh) is called
DetectAll(c, forceRefresh) ==
    /\ detectCall[c].pc = "idle"
    /\ DetectOps < MaxDetectOps
    /\ LET call == NewDetectCall("detectAll", forceRefresh, workspace,
                                 cachedResults)
       IN  Proceed(c, NextFolder(call, cachedResults), cachedResults)
    /\ UNCHANGED <<gitVars, watchVars, probe, workspace, extVars>>

\* detectInFolder(folder) is called
DetectInFolder(c, folder) ==
    /\ detectCall[c].pc = "idle"
    /\ DetectOps < MaxDetectOps
    /\ folder \in Range(workspace)
    /\ LET call == NewDetectCall("detectInFolder", TRUE, <<folder>>,
                                 cachedResults)
       IN  Proceed(c, [call EXCEPT !.pc = "detect"], cachedResults)
    /\ UNCHANGED <<gitVars, watchVars, probe, workspace, extVars>>

\* the promise of detector.detect settles and the call resumes
Settle(c, outcome) ==
    LET call == detectCall[c]
        resumed == Resume(call, outcome, cachedResults)
    IN  /\ Proceed(c, resumed,
                   IF resumed.pc # "throw" /\ call.detector = Len(detectors)
                   THEN CacheAfterFolder(AfterDetect(call, outcome),
                                         cachedResults)
                   ELSE cachedResults)
        /\ UNCHANGED <<gitVars, watchVars, probe, workspace, extVars>>

\* detector.detect resolves
DetectorReturns(c) ==
    /\ detectCall[c].pc = "detect"
    /\ \E outcome \in DetectOutcomes(
                          detectors[detectCall[c].detector],
                          detectCall[c].folders[detectCall[c].folder]) :
           /\ ~outcome.threw
           /\ Settle(c, outcome)

\* detector.detect rejects
DetectorThrows(c) ==
    /\ detectCall[c].pc = "detect"
    /\ \E outcome \in DetectOutcomes(
                          detectors[detectCall[c].detector],
                          detectCall[c].folders[detectCall[c].folder]) :
           /\ outcome.threw
           /\ Settle(c, outcome)

\* clearCache()
ClearCache ==
    /\ DetectOps < MaxDetectOps
    /\ cachedResults' = EmptyMap
    /\ detectDone' = Append(detectDone,
           [op |-> "clearCache", forceRefresh |-> FALSE, folders |-> <<>>,
            threw |-> FALSE, result |-> <<>>, ran |-> <<>>, hits |-> <<>>,
            cacheBefore |-> cachedResults, cacheAfter |-> EmptyMap])
    /\ UNCHANGED <<gitVars, watchVars, probe, workspace, detectCall,
                   extVars>>

DetectInit ==
    /\ file = NoFile
    /\ calls = [c \in Slots |-> Idle]
    /\ started = 0
    /\ history = <<>>
    /\ WatchInit
    /\ probe = NoProbe
    /\ workspace \in Workspaces
    /\ cachedResults = EmptyMap
    /\ detectCall = IdleDetect
    /\ detectDone = <<>>
    /\ ExtInit

\* the operations of the engine one after the other
NextDetect ==
    \/ \E forceRefresh \in BOOLEAN : DetectAll(1, forceRefresh)
    \/ \E folder \in Range(workspace) : DetectInFolder(1, folder)
    \/ DetectorReturns(1)
    \/ DetectorThrows(1)
    \/ detectCall[1].pc = "idle" /\ ClearCache

SpecDetect == DetectInit /\ [][NextDetect]_vars

\* the operations of the engine as the extension calls them: initialize and
\* the commands do not wait for one another, so a call may be made while
\* another one is suspended at a detector
NextDetectConc ==
    \/ \E c \in DetectSlots, forceRefresh \in BOOLEAN :
          DetectAll(c, forceRefresh)
    \/ \E c \in DetectSlots, folder \in Range(workspace) :
          DetectInFolder(c, folder)
    \/ \E c \in DetectSlots : DetectorReturns(c)
    \/ \E c \in DetectSlots : DetectorThrows(c)
    \/ ClearCache

SpecDetectConc == DetectInit /\ [][NextDetectConc]_vars

-----------------------------------------------------------------------------
(* The detectors: one root is scanned *)

DedupQuestions ==
    {Question("NodeDetector.detect", <<manifests>>) :
        manifests \in ManifestLists}
    \cup {Question("JavaDetector.detect", <<pomFiles, gradleFiles>>) :
            pomFiles \in ListsOf(PomPaths),
            gradleFiles \in ListsOf(GradlePaths)}
    \cup {Question("PythonDetector.detect", <<disk>>) : disk \in PythonDisks}

DedupInit ==
    /\ file = NoFile
    /\ calls = [c \in Slots |-> Idle]
    /\ started = 0
    /\ history = <<>>
    /\ WatchInit
    /\ probe \in DedupQuestions
    /\ workspace = <<>>
    /\ cachedResults = EmptyMap
    /\ detectCall = IdleDetect
    /\ detectDone = <<>>
    /\ ExtInit

\* NodeDetector.detect
AskNode ==
    /\ Asked("NodeDetector.detect")
    /\ Answer(NodeDetect(probe.args[1]))

\* JavaDetector.detect
AskJava ==
    /\ Asked("JavaDetector.detect")
    /\ Answer(JavaDetect(probe.args[1], probe.args[2]))

\* PythonDetector.detect
AskPython ==
    /\ Asked("PythonDetector.detect")
    /\ Answer(PythonDetect(probe.args[1]))

NextDedup ==
    \/ AskNode
    \/ AskJava
    \/ AskPython

SpecDedup == DedupInit /\ [][NextDedup]_vars

-----------------------------------------------------------------------------
(* GitGuardExtension: the commands.  A command is suspended at each prompt *)
(* and at each call of the GitIgnoreHandler, which runs in slot 1.         *)

F_envLog == P_env \o <<".", "l", "o", "g">>

\* what is staged when the commit is checked
StagedLists == {<<>>, <<F_src>>, <<F_env>>, <<F_envLog>>, <<F_src, F_log>>}

\* the rules of the extension when a command runs
FlowRuleLists == {<<R_env, R_log>>, <<R_log, R_env>>, <<R_nodeModulesDir>>}

FrameworksChoices == {"Suggest Rules", "Ignore", "Dismiss", Dismissed}

PreCommitChoices ==
    {"Fix & Add to .gitignore", "View Details", "Proceed Anyway", Dismissed}

\* what a step of a command leaves alone, the GitIgnoreHandler apart
FlowFrame ==
    UNCHANGED <<watchVars, probe, workspace, cachedResults, detectCall,
                detectDone, settings, indexChanges>>

\* the user's answer to a prompt is noted
Answered(f, prompt, choice) ==
    [f EXCEPT !.answers = Append(@, [prompt |-> prompt, choice |-> choice])]

\* the command returns
FlowDone(f, result) == [f EXCEPT !.pc = "done", !.result = result]

\* suggestMissingRules(forcePrompt) is called and awaits findMissingPatterns
SuggestMissingRules(forcePrompt) ==
    /\ flow = NoFlow
    /\ flow' = [NoFlow EXCEPT !.name = "suggestMissingRules",
                              !.pc = "findMissing",
                              !.forcePrompt = forcePrompt]
    /\ BeginFindMissing(1, applicableRules)
    /\ FlowFrame

\* the rule lists getRulesForDetections gives scanWorkspace: those of
\* initialize, and the list after a framework was added to the workspace
ScannedRuleLists == DetectedRuleLists \cup {<<R_env, R_log, R_nodeModulesDir>>}

\* scanWorkspace, after detectAll(true) has returned: the rules are computed
\* anew and findMissingPatterns is awaited.  What follows is the prompt of
\* showFrameworksDetected whenever a rule is missing, as in
\* suggestMissingRules(true).
ScanWorkspace(rules) ==
    /\ flow = NoFlow
    /\ flow' = [NoFlow EXCEPT !.name = "scanWorkspace",
                              !.pc = "findMissing",
                              !.forcePrompt = TRUE]
    /\ applicableRules' = rules
    /\ BeginFindMissing(1, rules)
    /\ UNCHANGED <<config, initialized, watcher, activeRules,
                   pendingNotifications, debounceTimer, timers, now,
                   permanentlyDismissed, sessionSuppressed, handlers, prompts,
                   nextId, flushed, userDismissed>>
    /\ UNCHANGED <<probe, workspace, cachedResults, detectCall, detectDone,
                   settings, indexChanges>>

\* findMissingPatterns has returned: nothing is missing, or the prompt of
\* showFrameworksDetected is shown when a critical rule is missing or the
\* command was called by the user
MissingFound ==
    /\ flow.pc = "findMissing"
    /\ calls[1].pc = "idle"
    /\ LET missingRules == history[Len(history)].missing
           criticalMissing ==
               SelectSeq(missingRules, LAMBDA r : r.severity = "critical")
       IN  flow' =
               IF missingRules = <<>> THEN FlowDone(flow, "none")
               ELSE IF criticalMissing # <<>> \/ flow.forcePrompt
               THEN [flow EXCEPT !.pc = "frameworksPrompt",
                                 !.rules = missingRules]
               ELSE FlowDone(flow, "none")
    /\ UNCHANGED gitVars
    /\ FlowFrame

\* The user answers the prompt of showFrameworksDetected.  On 'Suggest
\* Rules' promptAddRules adds all the rules when the settings say so, and
\* shows the selection otherwise.
UserAnswersFrameworks(choice) ==
    /\ flow.pc = "frameworksPrompt"
    /\ LET f == Answered(flow, "showFrameworksDetected", choice)
       IN  IF choice # "Suggest Rules"
           THEN flow' = FlowDone(f, "none") /\ UNCHANGED gitVars
           ELSE IF settings.modifyGitignoreAutomatically
           THEN /\ flow' = [f EXCEPT !.pc = "adding"]
                /\ BeginAddPatterns(1, flow.rules, T_node)
           ELSE /\ flow' = [f EXCEPT !.pc = "selectionPrompt"]
                /\ UNCHANGED gitVars
    /\ FlowFrame

\* the user closes the quick pick of showRuleSelection without accepting
UserCancelsSelection ==
    /\ flow.pc = "selectionPrompt"
    /\ flow' = FlowDone(Answered(flow, "showRuleSelection", Dismissed),
                        "none")
    /\ UNCHANGED gitVars
    /\ FlowFrame

\* the user accepts the quick pick with some of the patterns picked
UserSelectsRules(selectedPatterns) ==
    /\ flow.pc = "selectionPrompt"
    /\ LET f == Answered(flow, "showRuleSelection", "rule selection")
           selectedRules == SelectedRules(flow.rules, selectedPatterns)
       IN  IF selectedRules = <<>>
           THEN flow' = FlowDone(f, "none") /\ UNCHANGED gitVars
           ELSE /\ flow' = [f EXCEPT !.pc = "adding"]
                /\ BeginAddPatterns(1, selectedRules, T_node)
    /\ FlowFrame

\* addPatterns or addPattern has returned to the command
AddingReturns ==
    /\ flow.pc = "adding"
    /\ calls[1].pc = "idle"
    /\ flow' = FlowDone(flow, IF flow.name = "performPreCommitCheck"
                              THEN "false" ELSE "none")
    /\ UNCHANGED gitVars
    /\ FlowFrame

\* addPatternInteractive is called and asks for the pattern
AddPatternInteractive ==
    /\ flow = NoFlow
    /\ flow' = [NoFlow EXCEPT !.name = "addPatternInteractive",
                              !.pc = "patternPrompt"]
    /\ UNCHANGED gitVars
    /\ FlowFrame

\* the input box of the pattern is cancelled
UserCancelsPattern ==
    /\ flow.pc = "patternPrompt"
    /\ flow' = FlowDone(Answered(flow, "pattern", Dismissed), "none")
    /\ UNCHANGED gitVars
    /\ FlowFrame

\* the user enters a pattern; the input box of the reason is shown
UserEntersPattern(pattern) ==
    /\ flow.pc = "patternPrompt"
    /\ Trim(pattern) # <<>>
    /\ flow' = [Answered(flow, "pattern", "entered pattern") EXCEPT
                   !.pc = "reasonPrompt", !.pattern = pattern]
    /\ UNCHANGED gitVars
    /\ FlowFrame

\* The input box of the reason is accepted with a reason or with none, or
\* it is cancelled (reason is undefined): addPattern is called in each case.
UserAnswersReason(choice, reason) ==
    /\ flow.pc = "reasonPrompt"
    /\ choice \in {"entered reason", Dismissed}
    /\ choice = Dismissed => reason = <<>>
    /\ flow' = [Answered(flow, "reason", choice) EXCEPT !.pc = "adding"]
    /\ BeginAddPattern(1, Trim(flow.pattern), reason)
    /\ FlowFrame

\* performPreCommitCheck is called: it returns true when the check is off,
\* when no staged file matches a rule and when no warning is critical, and
\* shows the warning of showPreCommitWarning otherwise
PerformPreCommitCheck ==
    /\ flow = NoFlow
    /\ LET f == [NoFlow EXCEPT !.name = "performPreCommitCheck"]
           warnings == scanStagedFiles(indexChanges, applicableRules)
           critical == CriticalWarnings(warnings)
       IN  flow' =
               IF ~settings.preCommitCheck THEN FlowDone(f, "true")
               ELSE IF warnings = <<>> THEN FlowDone(f, "true")
               ELSE IF critical # <<>>
               THEN [f EXCEPT !.pc = "preCommitPrompt",
                              !.rules = WarningRules(critical)]
               ELSE FlowDone(f, "true")
    /\ UNCHANGED gitVars
    /\ FlowFrame

\* the user answers the modal warning of showPreCommitWarning
UserAnswersPreCommit(choice) ==
    /\ flow.pc = "preCommitPrompt"
    /\ LET f == Answered(flow, "showPreCommitWarning", choice)
       IN  IF choice = "Fix & Add to .gitignore"
           THEN /\ flow' = [f EXCEPT !.pc = "adding"]
                /\ BeginAddPatterns(1, flow.rules, <<>>)
           ELSE /\ flow' = FlowDone(f, IF choice = "Proceed Anyway"
                                       THEN "true" ELSE "false")
                /\ UNCHANGED gitVars
    /\ FlowFrame

FlowsInit ==
    /\ file \in WatchInitialFiles
    /\ calls = [c \in Slots |-> Idle]
    /\ started = 0
    /\ history = <<>>
    /\ config = [enabled |-> TRUE, watchFileCreation |-> FALSE,
                 suppressedWarnings |-> {}]
    /\ initialized = TRUE
    /\ applicableRules \in FlowRuleLists
    /\ watcher = FALSE
    /\ activeRules = <<>>
    /\ pendingNotifications = <<>>
    /\ debounceTimer = 0
    /\ timers = {}
    /\ now = 0
    /\ permanentlyDismissed = {}
    /\ sessionSuppressed = {}
    /\ handlers = {}
    /\ prompts = {}
    /\ nextId = 1
    /\ flushed = {}
    /\ userDismissed = {}
    /\ probe = NoProbe
    /\ workspace = <<>>
    /\ cachedResults = EmptyMap
    /\ detectCall = IdleDetect
    /\ detectDone = <<>>
    /\ settings \in [preCommitCheck : BOOLEAN,
                     modifyGitignoreAutomatically : BOOLEAN]
    /\ indexChanges \in StagedLists
    /\ flow = NoFlow

\* one command of the extension, the user, and the GitIgnoreHandler calls
\* the command awaits
NextFlows ==
    \/ \E forcePrompt \in BOOLEAN : SuggestMissingRules(forcePrompt)
    \/ MissingFound
    \/ \E choice \in FrameworksChoices : UserAnswersFrameworks(choice)
    \/ UserCancelsSelection
    \/ \E selectedPatterns \in SUBSET {P_env, P_log, P_nodeModulesDir} :
          UserSelectsRules(selectedPatterns)
    \/ AddingReturns
    \/ AddPatternInteractive
    \/ UserCancelsPattern
    \/ \E pattern \in TypedPatterns : UserEntersPattern(pattern)
    \/ \E reason \in TypedReasons :
          \E choice \in {"entered reason", Dismissed} :
              UserAnswersReason(choice, reason)
    \/ PerformPreCommitCheck
    \/ \E choice \in PreCommitChoices : UserAnswersPreCommit(choice)
    \/ FindMissingExisting(1, FALSE)
    \/ AddPatternsExisting(1, FALSE)
    \/ AddPatternsRead(1, FALSE)
    \/ AddPatternsWrite(1, FALSE)

SpecFlows == FlowsInit /\ [][NextFlows]_vars

\* initialize, the scanWorkspace command and the changes of the settings
NextScan ==
    \/ \E rules \in DetectedRuleLists : Initialize(rules)
    \/ \E key \in {"enabled", "watchFileCreation"} : UserChangesConfig(key)
    \/ \E rules \in ScannedRuleLists : ScanWorkspace(rules)
    \/ MissingFound
    \/ \E choice \in FrameworksChoices : UserAnswersFrameworks(choice)
    \/ UserCancelsSelection
    \/ \E selectedPatterns \in SUBSET {P_env, P_log, P_nodeModulesDir} :
          UserSelectsRules(selectedPatterns)
    \/ AddingReturns
    \/ FindMissingExisting(1, FALSE)
    \/ AddPatternsExisting(1, FALSE)
    \/ AddPatternsRead(1, FALSE)
    \/ AddPatternsWrite(1, FALSE)

SpecScan == WatcherInit /\ [][NextScan]_vars

-----------------------------------------------------------------------------
(* Claims about GitIgnoreHandler *)

Finished == {history[i] : i \in 1..Len(history)}

RECURSIVE IsSubsequence(_, _)
IsSubsequence(a, b) ==
    IF a = <<>> THEN TRUE
    ELSE IF b = <<>> THEN FALSE
    ELSE IF Head(a) = Head(b) THEN IsSubsequence(Tail(a), Tail(b))
    ELSE IsSubsequence(a, Tail(b))

\* C1: after one addPatterns call (whatever its reads returned, whether it
\* succeeded or failed) the file still starts with the content it had when
\* the call began.
C1_AppendOnly ==
    \A h \in Finished :
        (h.op = "addPatterns" /\ h.startFile.exists) =>
            /\ h.endFile.exists
            /\ StartsWith(h.endFile.content, h.startFile.content)

\* C2: no write of a handler call loses a line of the file: the lines before
\* the write are, in order, among the lines after it, also when calls overlap.
C2_NoLostLines ==
    [][\A c \in Slots :
          (calls[c].pc = "ap_write" /\ calls'[c].pc = "idle"
           /\ file.exists) =>
              /\ file'.exists
              /\ IsSubsequence(Split(file.content), Split(file'.content))]_vars

\* C3: a second addPatterns with the same rule list, right after a successful
\* first one, leaves the file as it is and adds no pattern.
C3_Idempotent ==
    \A i \in 1..(Len(history) - 1) :
        LET first == history[i]
            second == history[i + 1]
        IN  (/\ first.op = "addPatterns"
             /\ second.op = "addPatterns"
             /\ first.rules = second.rules
             /\ first.result.success
             /\ second.startFile = first.endFile) =>
                /\ second.endFile = second.startFile
                /\ second.result.addedPatterns = <<>>

\* the normal form the claim speaks of: trimmed, without the trailing '/'
C4_Normal(s) ==
    LET t == Trim(s)
        last == IF \E k \in 1..Len(t) : t[k] # "/"
                THEN CHOOSE k \in 1..Len(t) :
                         t[k] # "/" /\ \A j \in (k + 1)..Len(t) : t[j] = "/"
                ELSE 0
    IN  SubSeq(t, 1, last)

\* the pattern lines of a text that was read: neither blank nor a comment
C4_PatternLines(r) ==
    IF ~r.ok THEN {}
    ELSE {l \in Range(Split(r.content)) :
             Trim(l) # <<>> /\ Head(Trim(l)) # "#"}

C4_Present(r, pattern) ==
    \E l \in C4_PatternLines(r) : C4_Normal(l) = C4_Normal(pattern)

\* C4: findMissingPatterns returns exactly the rules whose normalized pattern
\* is the normal form of no pattern line of the file; the line node_modules
\* makes the rule node_modules/ not missing.
C4_MissingExact ==
    \A h \in Finished :
        h.op = "findMissingPatterns" =>
            /\ \A r \in Range(h.missing) :
                   r \in Range(h.rules) /\ ~C4_Present(h.readRes, r.pattern)
            /\ \A r \in Range(h.rules) :
                   ~C4_Present(h.readRes, r.pattern) => r \in Range(h.missing)
            /\ P_nodeModules \in C4_PatternLines(h.readRes) =>
                   R_nodeModulesDir \notin Range(h.missing)

C4_Witness ==
    \E h \in Finished :
        /\ h.op = "findMissingPatterns"
        /\ h.readRes.ok
        /\ P_nodeModules \in C4_PatternLines(h.readRes)
        /\ h.rules = <<R_nodeModulesDir, R_env>>
        /\ h.missing = <<R_env>>

\* C5: the write of create never replaces the content of a file that exists
\* when it writes.
C5_CreateNeverReplaces ==
    [][\A c \in Slots :
          (calls[c].pc = "cr_write" /\ calls'[c].pc = "idle"
           /\ file.exists) =>
              StartsWith(file'.content, file.content)]_vars

\* C6: a call whose writeFile failed returns (it does not throw) a result
\* with success = false, an error message and no added pattern, and the file
\* is as it was when the call began.
C6_WriteFailure ==
    \A h \in Finished :
        h.writeFailed =>
            /\ h.outcome = "returned"
            /\ h.result.success = FALSE
            /\ h.result.error \notin {"", NoError}
            /\ h.result.addedPatterns = <<>>
            /\ h.endFile = h.startFile

C6_Witness ==
    /\ \E h \in Finished :
          h.writeFailed /\ h.op = "addPatterns" /\ h.startFile.exists
    /\ \E h \in Finished : h.writeFailed /\ h.op = "create"


-----------------------------------------------------------------------------
(* Claims about FileWatcher *)

EventTimes(events) == {events[i].at : i \in 1..Len(events)}

\* the time the latest of the pending events was queued
LatestQueued ==
    CHOOSE a \in EventTimes(pendingNotifications) :
        \A b \in EventTimes(pendingNotifications) : b <= a

\* a step in which the debounce timer fires and events are flushed
FlushStep == flushed' # flushed

\* at most one timer is armed; while events are pending it is the one
\* debounceTimer names, it is due debounceDelay after the latest of them was
\* queued, and that time has not passed
C7_OneTimerRearmed ==
    /\ Cardinality(timers) <= 1
    /\ pendingNotifications # <<>> =>
          /\ timers = {[id |-> debounceTimer,
                        due |-> LatestQueued + debounceDelay]}
          /\ now <= LatestQueued + debounceDelay

\* a flush happens debounceDelay after the latest pending event was queued,
\* not before, and takes every pending event
C7_FlushWhenDue ==
    FlushStep =>
        /\ now = LatestQueued + debounceDelay
        /\ Cardinality(flushed' \ flushed) = Len(pendingNotifications)
        /\ timers' = {}

\* C7: debounced batching.  Every queued event re-arms the single timer, so
\* events queued with gaps shorter than debounceDelay, for distinct paths,
\* are flushed by one flush that has all of them, and an event queued after
\* debounceDelay has elapsed since the one before finds that one flushed and
\* gets a flush of its own.
C7_DebouncedBatching == [](C7_OneTimerRearmed) /\ [][C7_FlushWhenDue]_vars

\* two events queued at different times, less than debounceDelay apart, have
\* been flushed together
C7_Witness ==
    \E f \in prompts :
        /\ f.kind = "batch"
        /\ Cardinality(EventTimes(f.events)) > 1

\* C8: while the watcher is stopped no debounce timer is armed and nothing is
\* pending, whatever handleFileCreated invocation resumes.
C8_QuiescentAfterStop ==
    ~watcher => pendingNotifications = <<>> /\ timers = {}

\* C9: no warning prompt, for one file or for several, is shown for an event
\* whose pattern the user has chosen "Don't Warn Again" for.
C9_NoPromptAfterDismissal ==
    [][\A f \in prompts' \ prompts :
          f.pc = "prompt" => EventPatterns(f.events) \cap userDismissed = {}]_vars

\* no event that a flush has taken is pending, and no event is in the
\* prompts of two flushes
C10_FlushedOnce ==
    /\ EventIds(pendingNotifications) \cap flushed = {}
    /\ \A f \in prompts, g \in prompts :
          f # g => EventIds(f.events) \cap EventIds(g.events) = {}
    /\ \A f \in prompts : EventIds(f.events) \subseteq flushed

\* a flush takes exactly the events that are pending, none of them flushed
\* before, and leaves the map empty
C10_FlushTakesAll ==
    FlushStep =>
        /\ flushed' \ flushed = EventIds(pendingNotifications)
        /\ flushed \cap EventIds(pendingNotifications) = {}
        /\ pendingNotifications' = <<>>

\* C10: a flush is atomic and causally complete.  When the debounce timer
\* fires the flush takes exactly the pending events and the map is empty
\* right after; an event queued while the prompt of a flush is open is not
\* in that flush but in a later one, and no event is in two flushes.
C10_AtomicFlush == [](C10_FlushedOnce) /\ [][C10_FlushTakesAll]_vars

\* an event is pending that was queued while the prompt of an earlier flush
\* is open
C10_Witness ==
    /\ pendingNotifications # <<>>
    /\ \E f \in prompts :
          /\ f.pc = "prompt"
          /\ \A i \in 1..Len(f.events) : f.events[i].at < LatestQueued

-----------------------------------------------------------------------------
(* Claims about the matchers *)

AskedWatcher == probe.fn = "FileWatcher.matchesPattern" /\ probe.done

AskedScanner == probe.fn = "CommitScanner.matchesPattern" /\ probe.done

AskedMatcher == AskedWatcher \/ AskedScanner

\* the path, the base name and the pattern of the call
AskedPath == probe.args[1]

AskedBase == probe.args[2]

AskedPattern == probe.args[3]

HasStar(pattern) == Includes(pattern, <<"*">>)

\* base name equal to p, or the path has '/p/' in it or starts with 'p/'
NameOrDirectory(f, base, p) ==
    \/ base = p
    \/ Includes(f, <<"/">> \o p \o <<"/">>)
    \/ StartsWith(f, p \o <<"/">>)

\* C11 as stated: for a pattern p without '*', matches(f, basename(f), p) is
\* true if and only if the base name equals p, or f contains '/p/', or f
\* starts with 'p/'.
C11_LiteralMatch ==
    (AskedWatcher /\ ~HasStar(AskedPattern)) =>
        (probe.result <=> NameOrDirectory(AskedPath, AskedBase, AskedPattern))

\* C11 as amended: for a pattern p without '*', with np the pattern less one
\* trailing '/', matches(f, basename(f), p) is true if and only if the base
\* name equals np, or np is '.env' and the base name starts with '.env.', or
\* f contains '/np/', or f starts with 'np/'.
C11_NormalizedMatch ==
    (AskedWatcher /\ ~HasStar(AskedPattern)) =>
        LET np == StripOneSlash(AskedPattern)
        IN  probe.result <=>
                \/ NameOrDirectory(AskedPath, AskedBase, np)
                \/ /\ np = P_env
                   /\ StartsWith(AskedBase, P_env \o <<".">>)

\* a pattern without '*' that ends in '/' has matched a path by the
\* directory that holds the file
C11_Witness ==
    /\ AskedWatcher
    /\ ~HasStar(AskedPattern)
    /\ AskedPattern # StripOneSlash(AskedPattern)
    /\ AskedBase # StripOneSlash(AskedPattern)
    /\ probe.result

RECURSIVE GlobMatches(_, _)
GlobMatches(glob, s) ==
    IF glob = <<>> THEN s = <<>>
    ELSE IF Len(glob) >= 2 /\ glob[1] = "*" /\ glob[2] = "*"
    THEN \E k \in 0..Len(s) :
            GlobMatches(SubSeq(glob, 3, Len(glob)), SubSeq(s, k + 1, Len(s)))
    ELSE IF glob[1] = "*"
    THEN \E k \in 0..Len(s) :
            /\ \A i \in 1..k : s[i] # "/"
            /\ GlobMatches(Tail(glob), SubSeq(s, k + 1, Len(s)))
    ELSE /\ s # <<>>
         /\ s[1] = glob[1]
         /\ GlobMatches(Tail(glob), Tail(s))

\* the glob matches s from its start or from right after one of its '/'
GlobMatchesTail(glob, s) ==
    \E i \in 0..Len(s) :
        /\ i = 0 \/ s[i] = "/"
        /\ GlobMatches(glob, SubSeq(s, i + 1, Len(s)))

\* C13: in the glob matching of FileWatcher.matchesPattern and of
\* CommitScanner.matchesPattern a '**' matches any string, also one with '/'
\* in it, and a '*' matches only strings without '/': a path the pattern
\* matches in this sense is matched, and a path that is matched and is not
\* matched by name or directory is matched by the pattern in this sense.
C13_GlobSpans ==
    (AskedMatcher /\ HasStar(AskedPattern)) =>
        /\ GlobMatches(AskedPattern, AskedPath) => probe.result
        /\ probe.result =>
              \/ NameOrDirectory(AskedPath, AskedBase,
                                 StripOneSlash(AskedPattern))
              \/ GlobMatches(AskedPattern, AskedBase)
              \/ IF AskedWatcher
                 THEN GlobMatchesTail(AskedPattern, AskedPath)
                 ELSE GlobMatches(AskedPattern, AskedPath)

\* the PatternMatcher of the spec: exact base name, the '.env' family,
\* directory containment, glob anchored at both ends
PatternMatcherMatches(f, base, p) ==
    LET np == StripOneSlash(p)
    IN  \/ NameOrDirectory(f, base, np)
        \/ np = P_env /\ StartsWith(base, P_env \o <<".">>)
        \/ HasStar(p) /\ (GlobMatches(p, base) \/ GlobMatches(p, f))

\* the first rule of the list the PatternMatcher matches, as a sequence of
\* at most one rule
RECURSIVE MatchFirst(_, _)
MatchFirst(f, rules) ==
    IF rules = <<>> THEN <<>>
    ELSE IF PatternMatcherMatches(f, Basename(f), Head(rules).pattern)
    THEN <<Head(rules)>>
    ELSE MatchFirst(f, Tail(rules))

\* C14: RuleEngine.matchesAnyRule(path, rules) returns the first rule in list
\* order whose pattern matches the path under the PatternMatcher rules, and
\* null when none does.
C14_MatchFirst ==
    (probe.fn = "RuleEngine.matchesAnyRule" /\ probe.done) =>
        probe.result = MatchFirst(probe.args[1], probe.args[2])

-----------------------------------------------------------------------------
(* Claims about RuleEngine.getRulesForDetections *)

AskedRules == probe.fn = "RuleEngine.getRulesForDetections" /\ probe.done

AskedCatalog == probe.args[1]

AskedDetections == probe.args[2]

\* C15: getRulesForDetections returns a list in which no two rules have the
\* same pattern.  (The list is a function of the detection list and the
\* catalog alone: the method reads nothing else and the maps it builds are
\* walked in insertion order.)
C15_UniquePatterns ==
    AskedRules =>
        \A i \in 1..Len(probe.result), j \in 1..Len(probe.result) :
            i # j => probe.result[i].pattern # probe.result[j].pattern

\* rules were merged for a framework that declares a pattern its category
\* declares too
C15_Witness ==
    /\ AskedRules
    /\ AskedCatalog = CatalogShared
    /\ \E i \in 1..Len(AskedDetections) : AskedDetections[i] = D_react
    /\ Len(probe.result) >= 3

\* the present categories in the order of their first detection
PresentCategories == CategoryOrder(AskedDetections, {})

HasPattern(rules, pattern) ==
    \E i \in 1..Len(rules) : rules[i].pattern = pattern

\* the base rules of category number k
BaseRulesAt(k) == getRulesForCategory(AskedCatalog, PresentCategories[k])

\* a detected framework of category number k declares the pattern
FrameworkDeclaresAt(k, pattern) ==
    \E i \in 1..Len(AskedDetections) :
        /\ AskedDetections[i].ruleCategory = PresentCategories[k]
        /\ HasPattern(getFrameworkRules(AskedCatalog, PresentCategories[k],
                                        AskedDetections[i].id), pattern)

\* the rule emitted for the pattern is a base rule of a present category
EmittedIsBase(pattern) ==
    \E i \in 1..Len(probe.result), k \in 1..Len(PresentCategories) :
        /\ probe.result[i].pattern = pattern
        /\ \E j \in 1..Len(BaseRulesAt(k)) : BaseRulesAt(k)[j] = probe.result[i]

\* the rules of the frameworks of the detections of one category, in
\* detection order
RECURSIVE DeclaredByFrameworks(_, _)
DeclaredByFrameworks(category, detections) ==
    IF detections = <<>> THEN <<>>
    ELSE (IF Head(detections).ruleCategory = category
          THEN getFrameworkRules(AskedCatalog, category, Head(detections).id)
          ELSE <<>>)
         \o DeclaredByFrameworks(category, Tail(detections))

\* per present category its base rules in catalog order, then the rules of
\* its frameworks in detection order
RECURSIVE DeclaredFrom(_)
DeclaredFrom(k) ==
    IF k > Len(PresentCategories) THEN <<>>
    ELSE BaseRulesAt(k)
         \o DeclaredByFrameworks(PresentCategories[k], AskedDetections)
         \o DeclaredFrom(k + 1)

DeclaredPatterns == Range(Patterns(DeclaredFrom(1)))

\* the emitted rules keep the order base rules, then framework rules in
\* detection order, and every declared pattern is emitted
C16_Order ==
    /\ IsSubsequence(probe.result, DeclaredFrom(1))
    /\ Range(Patterns(probe.result)) = DeclaredPatterns

\* C16 as stated: a pattern declared by a base rule of a present ecosystem
\* and by a rule of a detected framework, of the same or of another present
\* ecosystem, is emitted as the base rule; within an ecosystem the base rules
\* come in catalog order before the framework rules, which come in detection
\* order.
C16_BaseWins ==
    AskedRules =>
        /\ \A pattern \in DeclaredPatterns :
              (/\ \E k \in 1..Len(PresentCategories) :
                     HasPattern(BaseRulesAt(k), pattern)
               /\ \E k \in 1..Len(PresentCategories) :
                     FrameworkDeclaresAt(k, pattern))
              => EmittedIsBase(pattern)
        /\ C16_Order

\* C16 as amended: a pattern declared by a base rule of a present ecosystem
\* E, and by no rule of a detected framework of an ecosystem that is first
\* detected before E, is emitted as a base rule: the base rule wins over the
\* framework rules of its own ecosystem and of the ecosystems after it.  The
\* order within an ecosystem is as stated.
C16_BaseWinsInOrder ==
    AskedRules =>
        /\ \A pattern \in DeclaredPatterns :
              (\E k \in 1..Len(PresentCategories) :
                  /\ HasPattern(BaseRulesAt(k), pattern)
                  /\ \A j \in 1..(k - 1) : ~FrameworkDeclaresAt(j, pattern))
              => EmittedIsBase(pattern)
        /\ C16_Order

\* a framework rule and a base rule of its ecosystem share the pattern '.env'
\* and the base rule is the one emitted
C16_Witness ==
    /\ AskedRules
    /\ AskedCatalog = CatalogShared
    /\ \E i \in 1..Len(AskedDetections) : AskedDetections[i] = D_react
    /\ \E i \in 1..Len(probe.result) : probe.result[i] = R_env
    /\ \A i \in 1..Len(probe.result) : probe.result[i] # R_envFramework

-----------------------------------------------------------------------------
(* Claims about DetectionEngine *)

\* the detectAll calls that have ended
DetectAllsDone ==
    {i \in 1..Len(detectDone) : detectDone[i].op = "detectAll"}

\* the runs of detectors an operation made on a root, in order
RunsOn(e, root) == SelectSeq(e.ran, LAMBDA r : r.root = root)

\* the detectors of a list of runs
DetectorsOf(runs) == [i \in 1..Len(runs) |-> runs[i].detector]

\* the detections the detectors returned in a list of runs
RECURSIVE DetectedIn(_)
DetectedIn(runs) ==
    IF runs = <<>> THEN <<>>
    ELSE Head(runs).detected \o DetectedIn(Tail(runs))

\* the root had a cache entry when the unforced call e came to it
ServedFromCache(e, root) ==
    ~e.forceRefresh /\ root \in DOMAIN e.cacheBefore

\* what detectAll owes for each root in turn: the cached detections of a
\* root served from the cache, the detections of this call's runs otherwise
RECURSIVE OwedFor(_, _)
OwedFor(e, roots) ==
    IF roots = <<>> THEN <<>>
    ELSE (IF ServedFromCache(e, Head(roots))
          THEN e.cacheBefore[Head(roots)]
          ELSE DetectedIn(RunsOn(e, Head(roots))))
         \o OwedFor(e, Tail(roots))

\* C17: detectAll(false) returns, for a root that has a cache entry, exactly
\* the cached detections and runs no detector on it; detectAll(true) runs
\* every registered detector on every root and replaces each root's cache
\* entry with the new result; after clearCache() the next detectAll(false)
\* runs the detectors again.
C17_CacheContract ==
    /\ \A i \in DetectAllsDone :
           LET e == detectDone[i]
           IN  /\ e.result = OwedFor(e, e.folders)
               /\ \A root \in Range(e.folders) :
                      IF ServedFromCache(e, root)
                      THEN /\ RunsOn(e, root) = <<>>
                           /\ e.cacheAfter[root] = e.cacheBefore[root]
                      ELSE /\ DetectorsOf(RunsOn(e, root)) = detectors
                           /\ e.cacheAfter[root] = DetectedIn(RunsOn(e, root))
    /\ \A i \in DetectAllsDone :
           (i > 1 /\ detectDone[i - 1].op = "clearCache") =>
               \A root \in Range(detectDone[i].folders) :
                   DetectorsOf(RunsOn(detectDone[i], root)) = detectors

\* a scan, then an unforced call served from the cache, then a forced call
\* that replaces the entry of the first root with another result
C17_Witness ==
    /\ Len(detectDone) = 3
    /\ DetectAllsDone = {1, 2, 3}
    /\ ~detectDone[2].forceRefresh
    /\ detectDone[2].hits # <<>>
    /\ detectDone[2].result # <<>>
    /\ detectDone[3].forceRefresh
    /\ detectDone[3].cacheAfter[Root_w1] # detectDone[3].cacheBefore[Root_w1]

\* the scans that have ended: detectAll and detectInFolder
ScansDone ==
    {i \in 1..Len(detectDone) :
         detectDone[i].op \in {"detectAll", "detectInFolder"}}

\* a detector threw during the operation
SomeDetectorThrew(e) == \E k \in 1..Len(e.ran) : e.ran[k].threw

\* C18: if a detector throws while a root is scanned, the scan still
\* completes without throwing, the remaining detectors are run on that root,
\* and the result contains every detection the other detectors returned for
\* that root and every detection of all detectors for the other roots.
C18_Isolation ==
    \A i \in ScansDone :
        LET e == detectDone[i]
        IN  SomeDetectorThrew(e) =>
                /\ ~e.threw
                /\ \A k \in 1..Len(e.ran) :
                       /\ Range(e.ran[k].detected) \subseteq Range(e.result)
                       /\ DetectorsOf(RunsOn(e, e.ran[k].root)) = detectors

\* a detectAll over two roots in which a detector threw on the first root
\* while another detector found something there and in the second root
C18_Witness ==
    \E i \in DetectAllsDone :
        LET e == detectDone[i]
        IN  /\ Len(e.folders) = 2
            /\ \E k \in 1..Len(e.ran) :
                   e.ran[k].threw /\ e.ran[k].root = Root_w1
            /\ \E k \in 1..Len(e.ran) :
                   e.ran[k].root = Root_w1 /\ e.ran[k].detected # <<>>
            /\ \E k \in 1..Len(e.ran) :
                   e.ran[k].root = Root_w2 /\ e.ran[k].detected # <<>>
            /\ e.result # <<>>

\* C19: the list detectAll returns has at most one detection per framework
\* id, and for each id it is the detection of highest confidence among all
\* those the detectors produced, across manifests and across the open roots.
C19_OnePerId ==
    \A i \in DetectAllsDone :
        LET e == detectDone[i]
        IN  /\ \A j, k \in 1..Len(e.result) :
                   j # k => e.result[j].id # e.result[k].id
            /\ \A n \in 1..Len(e.ran) :
                   \A d \in Range(e.ran[n].detected) :
                       \E j \in 1..Len(e.result) :
                           /\ e.result[j].id = d.id
                           /\ e.result[j].confidence >= d.confidence

-----------------------------------------------------------------------------
(* Claims about the detectors *)

AskedDetector ==
    probe.fn \in {"NodeDetector.detect", "JavaDetector.detect"} /\ probe.done

\* the detections the detector collected before it removed the duplicates
AskedDetected ==
    IF probe.fn = "NodeDetector.detect"
    THEN NodeDetected(probe.args[1])
    ELSE JavaDetected(probe.args[1], probe.args[2])

\* no detection of the same id has a higher confidence than d, or the same
\* confidence and a path of fewer segments
BestOf(d, detections) ==
    \A k \in 1..Len(detections) :
        detections[k].id = d.id =>
            \/ d.confidence > detections[k].confidence
            \/ /\ d.confidence = detections[k].confidence
               /\ PathDepth(d.detectedAt)
                      <= PathDepth(detections[k].detectedAt)

\* C20: of the detections of one framework id found in several manifests of
\* a root, the detector keeps exactly one, the one of highest confidence,
\* and among those of equal confidence the one whose path has the fewest
\* segments, whatever the order the manifests were found in.
C20_BestKept ==
    AskedDetector =>
        /\ \A k \in 1..Len(AskedDetected) :
               \E j \in 1..Len(probe.result) :
                   probe.result[j].id = AskedDetected[k].id
        /\ \A j, k \in 1..Len(probe.result) :
               j # k => probe.result[j].id # probe.result[k].id
        /\ \A j \in 1..Len(probe.result) :
               /\ probe.result[j] \in Range(AskedDetected)
               /\ BestOf(probe.result[j], AskedDetected)

\* a detector has answered
AskedAnyDetector ==
    /\ probe.fn \in {"NodeDetector.detect", "JavaDetector.detect",
                     "PythonDetector.detect"}
    /\ probe.done

\* the detector found a manifest of its ecosystem in the root
ManifestFound ==
    IF probe.fn = "NodeDetector.detect" THEN probe.args[1] # <<>>
    ELSE IF probe.fn = "JavaDetector.detect"
    THEN probe.args[1] # <<>> \/ probe.args[2] # <<>>
    ELSE probe.args[1].requirements # <<>> \/ probe.args[1].pyproject.found

\* the id of the detection that says the ecosystem is present
EcosystemId ==
    IF probe.fn = "NodeDetector.detect" THEN "node"
    ELSE IF probe.fn = "JavaDetector.detect" THEN "java"
    ELSE "python"

\* C21: whenever a detector (Node, Python or Java) finds at least one
\* manifest of its ecosystem in the root, its result has exactly one base
\* detection of the ecosystem, with confidence 0.8, next to the detections
\* of the frameworks.
C21_OneBaseDetection ==
    (AskedAnyDetector /\ ManifestFound) =>
        /\ Cardinality({j \in 1..Len(probe.result) :
                            probe.result[j].confidence = 80
                            /\ probe.result[j].ruleCategory = EcosystemId}) = 1
        /\ Cardinality({j \in 1..Len(probe.result) :
                            probe.result[j].id = EcosystemId}) = 1

AskedPython == probe.fn = "PythonDetector.detect" /\ probe.done

\* C22: if manage.py lies at the root, PythonDetector.detect returns a
\* 'django' detection of confidence 0.95 or more, whether or not a
\* requirements file or pyproject.toml exists and whether or not one of them
\* lists django.
C22_ManagePy ==
    (AskedPython /\ "manage.py" \in probe.args[1].pyFiles) =>
        \E j \in 1..Len(probe.result) :
            /\ probe.result[j].id = "django"
            /\ probe.result[j].confidence >= 95

\* manage.py and no dependency manifest at all
C22_Witness ==
    /\ AskedPython
    /\ "manage.py" \in probe.args[1].pyFiles
    /\ probe.args[1].requirements = <<>>
    /\ ~probe.args[1].pyproject.found
    /\ \E j \in 1..Len(probe.result) : probe.result[j].id = "django"

-----------------------------------------------------------------------------
(* Claims about the commands of the extension *)

\* performPreCommitCheck has returned
PreCommitDone == flow.name = "performPreCommitCheck" /\ flow.pc = "done"

\* a staged file matches a rule of severity critical of the active rules
StagedCritical ==
    \E i \in 1..Len(indexChanges), k \in 1..Len(applicableRules) :
        /\ applicableRules[k].severity = "critical"
        /\ scannerMatchesPattern(indexChanges[i], Basename(indexChanges[i]),
                                 applicableRules[k].pattern)

\* the user was shown the pre-commit warning and chose 'Proceed Anyway'
ChoseProceed ==
    \E n \in 1..Len(flow.answers) :
        /\ flow.answers[n].prompt = "showPreCommitWarning"
        /\ flow.answers[n].choice = "Proceed Anyway"

\* C23: with preCommitCheck enabled, whenever a staged file matches a rule
\* of severity critical of the active rule set, performPreCommitCheck
\* returns true only if the user was shown the pre-commit warning and chose
\* 'Proceed Anyway', and false in every other case.
C23_CriticalBlocks ==
    (PreCommitDone /\ settings.preCommitCheck /\ StagedCritical) =>
        /\ flow.result \in {"true", "false"}
        /\ flow.result = "true" <=> ChoseProceed

\* a call of addPatterns or addPattern has been made
WriteRequested ==
    \/ \E c \in Slots : calls[c].op \in {"addPatterns", "addPattern"}
    \/ \E n \in 1..Len(history) :
           history[n].op \in {"addPatterns", "addPattern"}

AffirmativeChoices ==
    {"Suggest Rules", "rule selection", "entered pattern", "entered reason",
     "Add to .gitignore", "Add All to .gitignore", "Fix & Add to .gitignore"}

\* C24: the extension never writes .gitignore without permission: a call
\* that writes .gitignore is preceded, in the same command, by an
\* affirmative choice of the user in a prompt, and a prompt that was
\* dismissed or cancelled never leads to a write.
C24_WriteByPermission ==
    WriteRequested =>
        /\ \E n \in 1..Len(flow.answers) :
               flow.answers[n].choice \in AffirmativeChoices
        /\ \A n \in 1..Len(flow.answers) :
               flow.answers[n].choice \in AffirmativeChoices

-----------------------------------------------------------------------------
(* Claims about the queue of the FileWatcher *)

\* the pattern lines of .gitignore as it is on disk
IgnoreFilePatterns ==
    IF file.exists
    THEN getExistingPatterns([ok |-> TRUE, content |-> file.content])
    ELSE {}

\* the pattern covers the path f: it is the base name of f, it names a
\* directory on the path of f, or it matches f as a glob
Covers(pattern, f) ==
    \/ NameOrDirectory(f, Basename(f), pattern)
    \/ /\ HasStar(pattern)
       /\ GlobMatches(pattern, Basename(f)) \/ GlobMatchesTail(pattern, f)

\* some rule of the list has the pattern and matches the path
MatchesRuleWith(rules, f, pattern) ==
    \E k \in 1..Len(rules) :
        /\ rules[k].pattern = pattern
        /\ watcherMatchesPattern(f, Basename(f), pattern)

\* the event qualifies in the state it is queued in
Qualifies(e) ==
    /\ MatchesRuleWith(activeRules, e.filePath, e.matchedPattern)
    /\ e.matchedPattern \notin permanentlyDismissed
    /\ e.matchedPattern \notin config.suppressedWarnings
    /\ \A pattern \in IgnoreFilePatterns : ~Covers(pattern, e.filePath)

-----------------------------------------------------------------------------
(* Claims about the DetectionEngine under concurrent calls *)

\* the operations that replace what a forced pass has computed
Refreshes(e) ==
    \/ e.op = "detectAll" /\ e.forceRefresh
    \/ e.op = "detectInFolder"
    \/ e.op = "clearCache"

\* the place in detectDone of the last forced detectAll that has completed,
\* 0 when there is none
LastForced ==
    IF \E i \in 1..Len(detectDone) :
          detectDone[i].op = "detectAll" /\ detectDone[i].forceRefresh
    THEN CHOOSE i \in 1..Len(detectDone) :
             /\ detectDone[i].op = "detectAll" /\ detectDone[i].forceRefresh
             /\ \A k \in (i + 1)..Len(detectDone) :
                   ~(detectDone[k].op = "detectAll"
                     /\ detectDone[k].forceRefresh)
    ELSE 0

\* no detectInFolder or clearCache has completed after the last forced
\* detectAll, and no refreshing operation is in flight
ForcedPassStands ==
    /\ LastForced > 0
    /\ \A k \in (LastForced + 1)..Len(detectDone) : ~Refreshes(detectDone[k])
    /\ \A c \in DetectSlots :
          detectCall[c].pc # "idle" => ~Refreshes(detectCall[c])

\* a step in which a detectAll(false) is called and returns
UnforcedReturns ==
    /\ Len(detectDone') = Len(detectDone) + 1
    /\ detectDone'[Len(detectDone')].op = "detectAll"
    /\ ~detectDone'[Len(detectDone')].forceRefresh
    /\ \A c \in DetectSlots : detectCall'[c] = detectCall[c]

\* C26: once a detectAll(true) has completed, a detectAll(false) called
\* later returns the detections that forced pass computed, unless another
\* detectAll(true), a detectInFolder or a clearCache ran after it; also
\* when an unforced detectAll that was called earlier ends after it.
C26_ForcedAuthoritative ==
    [][(UnforcedReturns /\ ForcedPassStands) =>
          detectDone'[Len(detectDone')].result
              = detectDone[LastForced].result]_vars

-----------------------------------------------------------------------------
(* Claims about the two matchers taken together *)

\* what the other of the two matchers returns for the arguments of the call
OtherMatcherResult ==
    IF AskedWatcher
    THEN scannerMatchesPattern(AskedPath, AskedBase, AskedPattern)
    ELSE watcherMatchesPattern(AskedPath, AskedBase, AskedPattern)

\* C27: FileWatcher.matchesPattern (live monitoring) and
\* CommitScanner.matchesPattern (staged files) return the same boolean for
\* every relative path, its base name and every pattern without '?'.
C27_MatchersAgree ==
    (AskedMatcher /\ ~Includes(AskedPattern, <<"?">>)) =>
        (probe.result <=> OtherMatcherResult)

-----------------------------------------------------------------------------
(* Claims about the draining of the queue of the FileWatcher *)

PendingPaths ==
    {pendingNotifications[i].filePath : i \in 1..Len(pendingNotifications)}

\* the pending map is non-empty exactly when a timer of the host is armed
C28_TimerIffPending == pendingNotifications # <<>> <=> timers # {}

\* a path leaves the pending map only in a flush that takes its event or in
\* a stop()
C28_LeavesByFlushOrStop ==
    \A i \in 1..Len(pendingNotifications) :
        pendingNotifications[i].filePath \notin PendingPaths' =>
            \/ pendingNotifications[i].id \in flushed' \ flushed
            \/ debounceTimer' = 0 /\ pendingNotifications' = <<>>

\* every path that is pending leaves the pending map
C28_Drains ==
    \A p \in CreatedPaths : (p \in PendingPaths) ~> (p \notin PendingPaths)

\* C28: no queued event is stranded.  In every reachable state the pending
\* map is non-empty exactly when a debounce timer is armed, and every event
\* that enters the pending map is in the end taken by a flush or discarded
\* by stop(), once no creation event arrives for the debounce delay.
C28_NoneStranded ==
    /\ [](C28_TimerIffPending)
    /\ [][C28_LeavesByFlushOrStop]_vars
    /\ C28_Drains

\* a flush has taken the events that were pending: the map is empty and no
\* timer is armed, while debounceTimer still holds the handle of the timer
\* that fired
C28_Witness ==
    /\ flushed # {}
    /\ pendingNotifications = <<>>
    /\ timers = {}
    /\ debounceTimer # 0

-----------------------------------------------------------------------------
(* Claims about the rules of the watcher *)

\* C29: while the watcher is running, the rule list it matches creation
\* events against is the applicableRules of the extension as last computed,
\* after any sequence of initialize, scanWorkspace and changes of the
\* settings.
C29_WatcherRulesCurrent == watcher => activeRules = applicableRules

-----------------------------------------------------------------------------
(* Claims about GitIgnoreHandler.isIgnored *)

AskedIsIgnored == probe.fn = "GitIgnoreHandler.isIgnored" /\ probe.done

\* C30: isIgnored(root, f) is true only if some pattern line of .gitignore
\* equals the base name of f, names a directory on the path of f, or
\* matches f as a glob; a pattern that is only a part of the path, as the
\* line 'env' for the file '.env', does not make it true.
C30_IgnoredOnlyIfCovered ==
    (AskedIsIgnored /\ probe.result) =>
        \E pattern \in getExistingPatterns(
                           [ok |-> TRUE, content |-> probe.args[1]]) :
            Covers(pattern, probe.args[2])

=============================================================================
